---- MODULE Spec2Model ----
(***************************************************************************)
(* Model of the yield-forecast trainer: the gradient-boosted tree engine   *)
(* (services/mlEngine.ts) and the training / prediction orchestration over *)
(* the browser key-value store (services/dataService.ts).                  *)
(*                                                                         *)
(* JavaScript numbers are modelled as exact rationals <<n, d>> in lowest   *)
(* terms with d > 0, extended with the three non-finite values the engine  *)
(* can produce: NaN = <<0,0>>, +Infinity = <<1,0>>, -Infinity = <<-1,0>>.  *)
(* Rounding of IEEE doubles is not modelled.                               *)
(***************************************************************************)
EXTENDS Integers, Sequences, FiniteSets, TLC

\* ------------------------------------------------------------------------
\* Numbers
\* ------------------------------------------------------------------------

Abs(i) == IF i < 0 THEN -i ELSE i

Sign(i) == IF i < 0 THEN -1 ELSE IF i > 0 THEN 1 ELSE 0

RECURSIVE GCD(_, _)
GCD(a, b) == IF b = 0 THEN a ELSE GCD(b, a % b)

\* the number n/d; a zero denominator gives NaN or a signed infinity
Rat(n, d) ==
  IF d = 0 THEN <<Sign(n), 0>>
  ELSE LET s == IF d < 0 THEN -1 ELSE 1
           g == GCD(Abs(n), Abs(d))
       IN  <<(s * n) \div g, (s * d) \div g>>

I(n) == <<n, 1>>

Zero == <<0, 1>>

One == <<1, 1>>

NaN == <<0, 0>>

Infinity == <<1, 0>>

IsNaN(a) == a = NaN

IsFinite(a) == a[2] # 0

LCM(a, b) == (a \div GCD(a, b)) * b

RAdd(a, b) ==
  IF IsNaN(a) \/ IsNaN(b) THEN NaN
  ELSE IF a[2] = 0 /\ b[2] = 0 THEN (IF a[1] = b[1] THEN a ELSE NaN)
  ELSE IF a[2] = 0 THEN a
  ELSE IF b[2] = 0 THEN b
  ELSE LET l == LCM(a[2], b[2])
       IN  Rat(a[1] * (l \div a[2]) + b[1] * (l \div b[2]), l)

RNeg(a) == <<-a[1], a[2]>>

RSub(a, b) == RAdd(a, RNeg(b))

RMul(a, b) ==
  IF a[2] = 0 \/ b[2] = 0 THEN <<Sign(a[1]) * Sign(b[1]), 0>>
  ELSE LET g1 == GCD(Abs(a[1]), b[2])
           g2 == GCD(Abs(b[1]), a[2])
       IN  <<(a[1] \div g1) * (b[1] \div g2), (a[2] \div g2) * (b[2] \div g1)>>

RInv(a) ==
  IF IsNaN(a) THEN NaN
  ELSE IF a[2] = 0 THEN Zero
  ELSE IF a[1] = 0 THEN Infinity
  ELSE IF a[1] < 0 THEN <<-a[2], -a[1]>>
  ELSE <<a[2], a[1]>>

RDiv(a, b) == RMul(a, RInv(b))

\* a < b as JavaScript evaluates it: false as soon as one side is NaN
RLt(a, b) ==
  IF IsNaN(a) \/ IsNaN(b) THEN FALSE
  ELSE IF a[2] = 0 /\ b[2] = 0 THEN a[1] < b[1]
  ELSE IF a[2] = 0 THEN a[1] < 0
  ELSE IF b[2] = 0 THEN b[1] > 0
  ELSE LET l == LCM(a[2], b[2])
       IN  a[1] * (l \div a[2]) < b[1] * (l \div b[2])

RLe(a, b) ==
  IF IsNaN(a) \/ IsNaN(b) THEN FALSE ELSE a = b \/ RLt(a, b)

RGt(a, b) == RLt(b, a)

\* Math.max(a, b): NaN when either argument is NaN
RMax(a, b) ==
  IF IsNaN(a) \/ IsNaN(b) THEN NaN ELSE IF RLt(a, b) THEN b ELSE a

RSq(a) == RMul(a, a)

\* arr.reduce((a, b) => a + b, 0)
RECURSIVE SumSeq(_)
SumSeq(s) == IF s = <<>> THEN Zero ELSE RAdd(SumSeq(SubSeq(s, 1, Len(s) - 1)), s[Len(s)])

RECURSIVE Pow2(_)
Pow2(k) == IF k = 0 THEN 1 ELSE 2 * Pow2(k - 1)

\* ------------------------------------------------------------------------
\* IEEE 754 doubles, for the matrix helpers
\* ------------------------------------------------------------------------
\* The matrix helpers divide by pivots as small as 1e-10, so their results
\* depend on the rounding of each operation.  There a number is a double
\* [k, s, m, e]: kind k ("num", "inf" or "nan"), sign s, and for a finite
\* value the magnitude m * 2^e with m odd and below 2^53.  m is a natural
\* number written in limbs of 15 bits, lowest first, so that it fits the
\* integers of the checker.  Every operation returns the exact result
\* rounded to 53 bits, ties to even.  Exponent overflow and subnormals are
\* not modelled (magnitudes stay between 1e-40 and 1e40), nor is the sign
\* of zero.

\* F(e) with e evaluated once, before F is
Eval(e, F(_)) == CHOOSE r \in {F(x) : x \in {e}} : TRUE

LimbBits == 15

Base == 32768

MantissaBits == 53

\* natural numbers in limbs
RECURSIVE NTrim(_)
NTrim(a) == IF a # <<>> /\ a[Len(a)] = 0 THEN NTrim(SubSeq(a, 1, Len(a) - 1)) ELSE a

NLimb(a, i) == IF i <= Len(a) THEN a[i] ELSE 0

RECURSIVE NAddFrom(_, _, _, _)
NAddFrom(a, b, i, carry) ==
  IF i > Len(a) /\ i > Len(b) THEN (IF carry = 0 THEN <<>> ELSE <<carry>>)
  ELSE LET t == NLimb(a, i) + NLimb(b, i) + carry
       IN  <<t % Base>> \o NAddFrom(a, b, i + 1, t \div Base)

NAdd(a, b) == NAddFrom(a, b, 1, 0)

\* a - b for a >= b
RECURSIVE NSubFrom(_, _, _, _)
NSubFrom(a, b, i, borrow) ==
  IF i > Len(a) THEN <<>>
  ELSE LET t == a[i] - NLimb(b, i) - borrow
       IN  IF t < 0 THEN <<t + Base>> \o NSubFrom(a, b, i + 1, 1)
           ELSE <<t>> \o NSubFrom(a, b, i + 1, 0)

NSub(a, b) == NTrim(NSubFrom(a, b, 1, 0))

\* -1, 0 or 1 as a is below, equal to or above b
RECURSIVE NCmpFrom(_, _, _)
NCmpFrom(a, b, i) ==
  IF i = 0 THEN 0
  ELSE IF a[i] < b[i] THEN -1
  ELSE IF a[i] > b[i] THEN 1
  ELSE NCmpFrom(a, b, i - 1)

NCmp(a, b) ==
  IF Len(a) < Len(b) THEN -1 ELSE IF Len(a) > Len(b) THEN 1 ELSE NCmpFrom(a, b, Len(a))

RECURSIVE NMulSmallFrom(_, _, _, _)
NMulSmallFrom(a, d, i, carry) ==
  IF i > Len(a) THEN (IF carry = 0 THEN <<>> ELSE <<carry>>)
  ELSE LET t == a[i] * d + carry
       IN  <<t % Base>> \o NMulSmallFrom(a, d, i + 1, t \div Base)

\* a * d for a limb d
NMulSmall(a, d) == IF d = 0 THEN <<>> ELSE NMulSmallFrom(a, d, 1, 0)

\* a * Base^k
NShiftLimbs(a, k) == IF a = <<>> THEN <<>> ELSE [i \in 1..k |-> 0] \o a

RECURSIVE NMul(_, _)
NMul(a, b) ==
  IF b = <<>> THEN <<>>
  ELSE NAdd(NMulSmall(a, Head(b)), NShiftLimbs(NMul(a, Tail(b)), 1))

\* a * 2^k
NShl(a, k) == NShiftLimbs(NMulSmall(a, Pow2(k % LimbBits)), k \div LimbBits)

\* a \div 2^k
NShr(a, k) ==
  LET q == k \div LimbBits
      r == k % LimbBits
      b == IF q >= Len(a) THEN <<>> ELSE SubSeq(a, q + 1, Len(a))
  IN  NTrim([i \in 1..Len(b) |->
               (b[i] \div Pow2(r)) + (NLimb(b, i + 1) % Pow2(r)) * Pow2(LimbBits - r)])

\* a % 2^k
NLow(a, k) ==
  LET q == k \div LimbBits
      r == k % LimbBits
  IN  IF q >= Len(a) THEN a
      ELSE NTrim(SubSeq(a, 1, q) \o <<a[q + 1] % Pow2(r)>>)

RECURSIVE BitLen(_)
BitLen(d) == IF d = 0 THEN 0 ELSE 1 + BitLen(d \div 2)

NBitLen(a) == IF a = <<>> THEN 0 ELSE LimbBits * (Len(a) - 1) + BitLen(a[Len(a)])

NBit(a, i) == (NLimb(a, (i \div LimbBits) + 1) \div Pow2(i % LimbBits)) % 2

NIsOdd(a) == a # <<>> /\ a[1] % 2 = 1

\* number of low zero bits of a # 0
RECURSIVE NTrailingZeros(_)
NTrailingZeros(a) ==
  IF a[1] = 0 THEN LimbBits + NTrailingZeros(Tail(a))
  ELSE LET RECURSIVE Tz(_)
           Tz(d) == IF d % 2 = 1 THEN 0 ELSE 1 + Tz(d \div 2)
       IN  Tz(a[1])

\* one step of long division by b, whose highest limb is at least Base \div 2:
\* the limb d and the remainder of rem \div b for rem < b * Base.  The limb is
\* estimated from the two highest limbs of rem and is at most 2 too large.
NDivLimb(rem, b) ==
  LET n == Len(b)
      est == (NLimb(rem, n + 1) * Base + NLimb(rem, n)) \div b[n]
      top == IF est > Base - 1 THEN Base - 1 ELSE est
      d == CHOOSE c \in {top - 2, top - 1, top} \cap (0..(Base - 1)) :
             /\ NCmp(NMulSmall(b, c), rem) <= 0
             /\ NCmp(NMulSmall(b, c + 1), rem) > 0
  IN  <<d, NSub(rem, NMulSmall(b, d))>>

\* <<q, r>> with (a \div Base^(i-1)) = q * b + r and r < b, limb i of a upwards
RECURSIVE NDivFrom(_, _, _)
NDivFrom(a, b, i) ==
  IF i > Len(a) THEN << <<>>, <<>> >>
  ELSE Eval(NDivFrom(a, b, i + 1),
            LAMBDA p : Eval(NDivLimb(NTrim(<<a[i]>> \o p[2]), b),
                            LAMBDA step : <<NTrim(<<step[1]>> \o p[1]), step[2]>>))

\* <<a \div b, a % b>> for b # 0: both are first scaled so that the highest
\* limb of b is at least Base \div 2
NDivMod(a, b) ==
  LET t == LimbBits - BitLen(b[Len(b)])
  IN  Eval(<<NShl(a, t), NShl(b, t)>>,
           LAMBDA ab : Eval(NDivFrom(ab[1], ab[2], 1), LAMBDA p : <<p[1], NShr(p[2], t)>>))

\* doubles
DZero == [k |-> "num", s |-> 0, m |-> <<>>, e |-> 0]

DNaN == [k |-> "nan", s |-> 0, m |-> <<>>, e |-> 0]

DInf(s) == [k |-> "inf", s |-> s, m |-> <<>>, e |-> 0]

\* s * m * 2^e with the low zero bits of m moved into the exponent
DCanon(s, m, e) ==
  IF m = <<>> \/ s = 0 THEN DZero
  ELSE LET tz == NTrailingZeros(m)
       IN  [k |-> "num", s |-> s, m |-> NShr(m, tz), e |-> e + tz]

\* s * m * 2^e rounded to the nearest double, ties to even
DRound(s, m, e) ==
  LET len == NBitLen(m) IN
  IF len <= MantissaBits THEN DCanon(s, m, e)
  ELSE LET sh == len - MantissaBits
           q == NShr(m, sh)
           c == NCmp(NLow(m, sh), NShl(<<1>>, sh - 1))
       IN  DCanon(s, IF c > 0 \/ (c = 0 /\ NIsOdd(q)) THEN NAdd(q, <<1>>) ELSE q, e + sh)

\* the double of a small integer
DInt(n) == DCanon(Sign(n), <<Abs(n)>>, 0)

DNeg(a) == [a EXCEPT !.s = -a.s]

DAbs(a) == [a EXCEPT !.s = Abs(a.s)]

\* -1, 0 or 1 as |a| is below, equal to or above |b|, for finite a and b
DCmpAbs(a, b) ==
  IF a.s = 0 THEN (IF b.s = 0 THEN 0 ELSE -1)
  ELSE IF b.s = 0 THEN 1
  ELSE LET e == IF a.e < b.e THEN a.e ELSE b.e
       IN  NCmp(NShl(a.m, a.e - e), NShl(b.m, b.e - e))

\* a + b
DAdd(a, b) ==
  IF a.k = "nan" \/ b.k = "nan" THEN DNaN
  ELSE IF a.k = "inf" /\ b.k = "inf" THEN (IF a.s = b.s THEN a ELSE DNaN)
  ELSE IF a.k = "inf" THEN a
  ELSE IF b.k = "inf" THEN b
  ELSE IF a.s = 0 THEN b
  ELSE IF b.s = 0 THEN a
  ELSE LET e == IF a.e < b.e THEN a.e ELSE b.e
           ma == NShl(a.m, a.e - e)
           mb == NShl(b.m, b.e - e)
           c == NCmp(ma, mb)
       IN  IF a.s = b.s THEN DRound(a.s, NAdd(ma, mb), e)
           ELSE IF c = 0 THEN DZero
           ELSE IF c > 0 THEN DRound(a.s, NSub(ma, mb), e)
           ELSE DRound(b.s, NSub(mb, ma), e)

\* a - b
DSub(a, b) == DAdd(a, DNeg(b))

\* a * b
DMul(a, b) ==
  IF a.k = "nan" \/ b.k = "nan" THEN DNaN
  ELSE IF a.k = "inf" \/ b.k = "inf"
       THEN (IF a.s * b.s = 0 THEN DNaN ELSE DInf(a.s * b.s))
  ELSE IF a.s * b.s = 0 THEN DZero
  ELSE DRound(a.s * b.s, NMul(a.m, b.m), a.e + b.e)

\* a / b: the quotient of the mantissas is taken to two bits more than a
\* double holds, with one more bit set when the division leaves a remainder
DDiv(a, b) ==
  IF a.k = "nan" \/ b.k = "nan" THEN DNaN
  ELSE IF a.k = "inf" THEN (IF b.k = "inf" THEN DNaN ELSE DInf(a.s * (IF b.s < 0 THEN -1 ELSE 1)))
  ELSE IF b.k = "inf" THEN DZero
  ELSE IF b.s = 0 THEN (IF a.s = 0 THEN DNaN ELSE DInf(a.s))
  ELSE IF a.s = 0 THEN DZero
  ELSE LET gap == MantissaBits + 2 + NBitLen(b.m) - NBitLen(a.m)
           sh == IF gap > 0 THEN gap ELSE 0
           qr == NDivMod(NShl(a.m, sh), b.m)
           q == IF qr[2] = <<>> THEN NShl(qr[1], 1) ELSE NAdd(NShl(qr[1], 1), <<1>>)
       IN  DRound(a.s * b.s, q, a.e - b.e - sh - 1)

\* a < b
DLt(a, b) ==
  IF a.k = "nan" \/ b.k = "nan" THEN FALSE
  ELSE IF a.k = "inf" \/ b.k = "inf"
       THEN (IF a.k = "inf" /\ b.k = "inf" THEN a.s < b.s
             ELSE IF a.k = "inf" THEN a.s < 0 ELSE b.s > 0)
  ELSE IF a.s # b.s THEN a.s < b.s
  ELSE IF a.s = 0 THEN FALSE
  ELSE IF a.s > 0 THEN DCmpAbs(a, b) < 0
  ELSE DCmpAbs(a, b) > 0

\* the literal 1e-10: 0x1.b7cdfd9d7bdbbp-34
D1em10 == [k |-> "num", s |-> 1, m |-> <<15803, 13231, 29567, 219>>, e |-> -86]

\* the tolerance 1e-6: 0x1.0c6f7a0b5ed8dp-20
D1em6 == [k |-> "num", s |-> 1, m |-> <<28045, 16747, 7134, 134>>, e |-> -72]

\* ------------------------------------------------------------------------
\* Matrix helpers (mlEngine.ts)
\* ------------------------------------------------------------------------
\* A matrix is a sequence of rows, each a sequence of doubles.

\* a[i][k], both counted from 1: an element beyond the end of its row reads
\* as undefined, which the arithmetic turns into NaN
At(a, i, k) == IF k <= Len(a[i]) THEN a[i][k] ELSE DNaN

\* line 13: result[i][j] after the first k terms of the inner loop
RECURSIVE Dot(_, _, _, _, _)
Dot(a, b, i, j, k) ==
  IF k = 0 THEN DZero
  ELSE Eval(Dot(a, b, i, j, k - 1), LAMBDA acc : DAdd(acc, DMul(At(a, i, k), At(b, k, j))))

\* lines 8-18: the matrix returned, or the TypeError of b[0].length when a has
\* rows and b has none
multiply(a, b) ==
  IF Len(a) = 0 THEN [outcome |-> "matrix", result |-> <<>>]
  ELSE IF Len(b) = 0 THEN [outcome |-> "TypeError", result |-> <<>>]
  ELSE [outcome |-> "matrix",
        result |-> [i \in 1..Len(a) |-> [j \in 1..Len(b[1]) |-> Dot(a, b, i, j, Len(b))]]]

\* line 22
IdentityMatrix(n) == [i \in 1..n |-> [j \in 1..n |-> IF i = j THEN DInt(1) ELSE DZero]]

\* lines 26-27: the pivot of step i, replaced when it is closer to 0 than 1e-10
Pivot(copy, i) == IF DLt(DAbs(copy[i][i]), D1em10) THEN D1em10 ELSE copy[i][i]

\* lines 28-31: row i divided by the pivot
ScaleRow(mat, i, pivot) ==
  [mat EXCEPT ![i] = [j \in 1..Len(mat[i]) |-> DDiv(mat[i][j], pivot)]]

\* lines 32-40: factor[k] times row i taken off every other row k
ClearColumn(mat, i, factor) ==
  [k \in 1..Len(mat) |->
     IF k = i THEN mat[k]
     ELSE [j \in 1..Len(mat[k]) |-> DSub(mat[k][j], DMul(factor[k], mat[i][j]))]]

\* lines 25-41: step i of the elimination on the pair of matrices
InvertStep(st, i) ==
  Eval(Pivot(st.copy, i), LAMBDA pivot :
    Eval([copy |-> ScaleRow(st.copy, i, pivot), identity |-> ScaleRow(st.identity, i, pivot)],
         LAMBDA sc :
           Eval([k \in 1..Len(sc.copy) |-> sc.copy[k][i]], LAMBDA factor :
             [copy |-> ClearColumn(sc.copy, i, factor),
              identity |-> ClearColumn(sc.identity, i, factor)])))

RECURSIVE InvertSteps(_, _)
InvertSteps(st, i) ==
  IF i = 0 THEN st ELSE Eval(InvertSteps(st, i - 1), LAMBDA prev : InvertStep(prev, i))

\* lines 20-43, for a square matrix m
invert(m) == InvertSteps([copy |-> m, identity |-> IdentityMatrix(Len(m))], Len(m)).identity

\* ------------------------------------------------------------------------
\* Regression tree (mlEngine.ts)
\* ------------------------------------------------------------------------

\* the rows are left as leaves when there are this many or fewer
MinSplitRows == 5

Leaf(y) ==
  [featureIndex |-> -1, threshold |-> Zero,
   leftValue |-> RDiv(SumSeq(y), I(IF Len(y) > 1 THEN Len(y) ELSE 1))]

IsLeaf(tree) == tree.featureIndex = -1

\* the positions of s, in order, whose element satisfies Test
SelectIdx(n, Test(_)) ==
  LET RECURSIVE Go(_)
      Go(i) == IF i > n THEN <<>>
               ELSE IF Test(i) THEN <<i>> \o Go(i + 1) ELSE Go(i + 1)
  IN  Go(1)

Pick(s, idx) == [k \in 1..Len(idx) |-> s[idx[k]]]

\* values.sort((a, b) => a - b) followed by Array.from(new Set(values))
RECURSIVE SortedUnique(_)
SortedUnique(S) ==
  IF S = {} THEN <<>>
  ELSE LET m == CHOOSE v \in S : \A w \in S : RLe(v, w)
       IN  <<m>> \o SortedUnique(S \ {m})

\* sum of squared deviations of ys from their own mean
SSEAroundMean(ys) ==
  LET mean == RDiv(SumSeq(ys), I(Len(ys)))
  IN  SumSeq([k \in 1..Len(ys) |-> RSq(RSub(ys[k], mean))])

\* the candidate splits of one feature f (0-based), in scan order
FeatureCandidates(X, y, f) ==
  LET n == Len(X)
      uniqueValues == SortedUnique({X[j][f + 1] : j \in 1..n})
      Cand(i) ==
        LET threshold == RDiv(RAdd(uniqueValues[i], uniqueValues[i + 1]), I(2))
            leftY  == Pick(y, SelectIdx(n, LAMBDA j : RLe(X[j][f + 1], threshold)))
            rightY == Pick(y, SelectIdx(n, LAMBDA j : ~RLe(X[j][f + 1], threshold)))
        IN  [f |-> f, threshold |-> threshold,
             valid |-> Len(leftY) # 0 /\ Len(rightY) # 0,
             mse |-> IF Len(leftY) # 0 /\ Len(rightY) # 0
                     THEN RAdd(SSEAroundMean(leftY), SSEAroundMean(rightY))
                     ELSE NaN]
  IN  [i \in 1..(Len(uniqueValues) - 1) |-> Cand(i)]

RECURSIVE AllCandidates(_, _, _, _)
AllCandidates(X, y, f, featureCount) ==
  IF f >= featureCount THEN <<>>
  ELSE FeatureCandidates(X, y, f) \o AllCandidates(X, y, f + 1, featureCount)

\* variant: a candidate that only ties with the best so far replaces it
ImprovesOrTies(mse, minMSE) == RLe(mse, minMSE)

\* line 114: mse < minMSE
Improves(mse, minMSE) == RLt(mse, minMSE)

\* the scan of lines 99-116: keeps the first candidate of strictly smaller mse
RECURSIVE BestSplit(_, _)
BestSplit(cands, best) ==
  IF cands = <<>> THEN best
  ELSE LET c == Head(cands)
       IN  IF c.valid /\ Improves(c.mse, best.minMSE)
           THEN BestSplit(Tail(cands),
                  [bestFeature |-> c.f, bestThreshold |-> c.threshold, minMSE |-> c.mse])
           ELSE BestSplit(Tail(cands), best)

NoSplit == [bestFeature |-> -1, bestThreshold |-> Zero, minMSE |-> Infinity]

\* variant: the depth test lets one level too many through
StopAtDepthLate(depth, maxDepth, n) == depth > maxDepth \/ n <= MinSplitRows

StopAtDepth(depth, maxDepth, n) == depth >= maxDepth \/ n <= MinSplitRows

RECURSIVE trainRegressionTree(_, _, _, _, _)
trainRegressionTree(X, y, depth, maxDepth, featureCount) ==
  LET n == Len(X) IN
  IF StopAtDepth(depth, maxDepth, n) THEN Leaf(y)
  ELSE LET b == BestSplit(AllCandidates(X, y, 0, featureCount), NoSplit) IN
       IF b.bestFeature = -1 THEN Leaf(y)
       ELSE LET li == SelectIdx(n, LAMBDA i : RLe(X[i][b.bestFeature + 1], b.bestThreshold))
                ri == SelectIdx(n, LAMBDA i : ~RLe(X[i][b.bestFeature + 1], b.bestThreshold))
            IN  [featureIndex |-> b.bestFeature, threshold |-> b.bestThreshold,
                 left  |-> trainRegressionTree(Pick(X, li), Pick(y, li), depth + 1, maxDepth, featureCount),
                 right |-> trainRegressionTree(Pick(X, ri), Pick(y, ri), depth + 1, maxDepth, featureCount)]

\* variant: the two branches of a split are taken the wrong way round
GoesLeftSwapped(tree, x) == ~RLe(x[tree.featureIndex + 1], tree.threshold)

GoesLeft(tree, x) == RLe(x[tree.featureIndex + 1], tree.threshold)

RECURSIVE predictTree(_, _)
predictTree(tree, x) ==
  IF IsLeaf(tree) THEN tree.leftValue
  ELSE IF GoesLeft(tree, x) THEN predictTree(tree.left, x) ELSE predictTree(tree.right, x)

\* ------------------------------------------------------------------------
\* Data rows
\* ------------------------------------------------------------------------
\* A DataRow is a record of cells.  Column names of the spreadsheet:
\*   days = 采集天数, notes = 笔记数, likes = 点赞数, favs = 收藏数,
\*   comments = 评论数, target = 采集量, dNotes = 日均笔记数, dLikes = 日均点赞数,
\*   dFavs = 日均收藏数, dComments = 日均评论数.
\* A cell absent from the sheet reads as undefined.

Undefined == <<0, -1>>

\* Number(v)
Number(v) == IF v = Undefined THEN NaN ELSE v

\* Number(v) || dflt : NaN and 0 are falsy
NumberOr(v, dflt) == IF IsNaN(Number(v)) \/ Number(v) = Zero THEN dflt ELSE Number(v)

Cell(row, col) == IF col \in DOMAIN row THEN row[col] ELSE Undefined

INPUT_FEATURES == <<"days", "notes", "likes", "favs", "comments">>

GBDT_FEATURES == <<"dNotes", "dLikes", "dFavs", "dComments">>

TARGET == "target"

With(row, col, v) == [c \in (DOMAIN row) \cup {col} |-> IF c = col THEN v ELSE row[c]]

preprocessRow(row) ==
  LET days == RMax(Zero, NumberOr(Cell(row, "days"), Zero))
      Daily(col) == IF RGt(days, Zero) THEN RDiv(NumberOr(Cell(row, col), Zero), days) ELSE Zero
  IN  With(With(With(With(row, "dNotes", Daily("notes")), "dLikes", Daily("likes")),
                "dFavs", Daily("favs")), "dComments", Daily("comments"))

\* ------------------------------------------------------------------------
\* Robust baseline (mlEngine.ts)
\* ------------------------------------------------------------------------

RECURSIVE Insert(_, _)
Insert(v, s) ==
  IF s = <<>> THEN <<v>>
  ELSE IF RLe(v, Head(s)) THEN <<v>> \o s
  ELSE <<Head(s)>> \o Insert(v, Tail(s))

\* [...arr].sort((a, b) => a - b)
RECURSIVE SortAsc(_)
SortAsc(s) == IF s = <<>> THEN <<>> ELSE Insert(Head(s), SortAsc(Tail(s)))

median(arr) ==
  IF Len(arr) = 0 THEN Zero
  ELSE LET s == SortAsc(arr)
           mid == Len(s) \div 2
       IN  IF Len(s) % 2 # 0 THEN s[mid + 1]
           ELSE RDiv(RAdd(s[mid], s[mid + 1]), I(2))

\* variant: the days cell is used as it is given
BaselineDaysAsGiven(row) == Number(Cell(row, "days"))

\* lines 59 and 66
BaselineDays(row) == RMax(One, NumberOr(Cell(row, "days"), One))

BaselineRatio(row, col) ==
  LET yieldTotal == NumberOr(Cell(row, TARGET), Zero)
      total == RMax(One, NumberOr(Cell(row, col), One))
  IN  RDiv(yieldTotal, RMul(BaselineDays(row), total))

calculateRobustBaselineCoeffs(data) ==
  << RMax(Zero, median([i \in 1..Len(data) |-> BaselineRatio(data[i], "notes")])),
     RMax(Zero, median([i \in 1..Len(data) |-> BaselineRatio(data[i], "likes")])) >>

\* ------------------------------------------------------------------------
\* Gradient boosting (mlEngine.ts)
\* ------------------------------------------------------------------------

\* Math.sqrt, rounded down to a multiple of 1/SqrtScale
SqrtScale == 10

RECURSIVE ISqrtFrom(_, _)
ISqrtFrom(m, k) == IF (k + 1) * (k + 1) > m THEN k ELSE ISqrtFrom(m, k + 1)

Sqrt(a) ==
  IF IsNaN(a) \/ a[1] < 0 THEN NaN
  ELSE IF a[2] = 0 THEN Infinity
  ELSE Rat(ISqrtFrom((a[1] * SqrtScale * SqrtScale) \div a[2], 0), SqrtScale)

FeatureVector(row, featureNames) ==
  [k \in 1..Len(featureNames) |-> NumberOr(Cell(row, featureNames[k]), Zero)]

\* lines 136-143: the state of the boosting loop before its first round
GBDTStart(data, featureNames, targetName) ==
  LET y == [i \in 1..Len(data) |-> NumberOr(Cell(data[i], targetName), Zero)]
      initialMean == RDiv(SumSeq(y), I(Len(y)))
  IN  [X |-> [i \in 1..Len(data) |-> FeatureVector(data[i], featureNames)],
       y |-> y,
       initialMean |-> initialMean,
       currentPreds |-> [i \in 1..Len(y) |-> initialMean],
       trees |-> <<>>]

\* currentPreds[j] += lr * predictTree(tree, X[j])
\* variant: the update is subtracted instead of added
ShrinkAway(lr, v) == RNeg(RMul(lr, v))

Shrink(lr, v) == RMul(lr, v)

\* lines 145-148: one round of the boosting loop
GBDTRound(st, lr, maxDepth, featureCount) ==
  LET residuals == [i \in 1..Len(st.y) |-> RSub(st.y[i], st.currentPreds[i])]
      tree == trainRegressionTree(st.X, residuals, 0, maxDepth, featureCount)
  IN  [st EXCEPT !.trees = Append(@, tree),
                 !.currentPreds = [j \in 1..Len(st.y) |->
                                     RAdd(@[j], Shrink(lr, predictTree(tree, st.X[j])))]]

RECURSIVE GBDTRounds(_, _, _, _, _)
GBDTRounds(st, k, lr, maxDepth, featureCount) ==
  IF k = 0 THEN st
  ELSE GBDTRounds(GBDTRound(st, lr, maxDepth, featureCount), k - 1, lr, maxDepth, featureCount)

\* sum over rows of (y - runningPrediction)^2
TrainingSSE(st) ==
  SumSeq([i \in 1..Len(st.y) |-> RSq(RSub(st.y[i], st.currentPreds[i]))])

\* lines 150-153: the artifact returned once the loop has ended
GBDTFinish(st, data, featureNames, lr) ==
  LET n == Len(st.y)
      residualVariance == RDiv(TrainingSSE(st), I(IF n - 1 > 1 THEN n - 1 ELSE 1))
  IN  [initialMean |-> st.initialMean, learningRate |-> lr, trees |-> st.trees,
       residualStd |-> Sqrt(RMax(Zero, residualVariance)),
       featureNames |-> featureNames,
       baselineCoeffs |-> calculateRobustBaselineCoeffs(data)]

trainGBDT(data, featureNames, targetName, nEstimators, lr, maxDepth) ==
  GBDTFinish(GBDTRounds(GBDTStart(data, featureNames, targetName), nEstimators,
                        lr, maxDepth, Len(featureNames)),
             data, featureNames, lr)

\* ------------------------------------------------------------------------
\* Prediction with guardrail (mlEngine.ts)
\* ------------------------------------------------------------------------

Pct(p) == RDiv(p, I(100))

\* lines 170-173
RECURSIVE RawPrediction(_, _, _, _)
RawPrediction(initialMean, learningRate, trees, x) ==
  IF trees = <<>> THEN initialMean
  ELSE RAdd(RawPrediction(initialMean, learningRate, SubSeq(trees, 1, Len(trees) - 1), x),
            RMul(learningRate, predictTree(trees[Len(trees)], x)))

\* variant: the two driver terms are summed but not halved
BaselineDailyUnhalved(model, row) ==
  RAdd(RMul(model.baselineCoeffs[1], NumberOr(Cell(row, "notes"), Zero)),
       RMul(model.baselineCoeffs[2], NumberOr(Cell(row, "likes"), Zero)))

\* line 188
BaselineDaily(model, row) ==
  RDiv(RAdd(RMul(model.baselineCoeffs[1], NumberOr(Cell(row, "notes"), Zero)),
            RMul(model.baselineCoeffs[2], NumberOr(Cell(row, "likes"), Zero))), I(2))

\* variant: the enabled switch is not consulted
GuardAlways(gbdtDaily, minDaily, maxDaily, enabled) ==
  IF RLt(gbdtDaily, minDaily) THEN <<minDaily, TRUE>>
  ELSE IF RGt(gbdtDaily, maxDaily) THEN <<maxDaily, TRUE>>
  ELSE <<gbdtDaily, FALSE>>

\* variant: a prediction on the low bound counts as below it
BelowBandOrOnIt(gbdtDaily, minDaily) == RLe(gbdtDaily, minDaily)

\* line 193: gbdtDaily < minDaily
BelowBand(gbdtDaily, minDaily) == RLt(gbdtDaily, minDaily)

\* lines 175-200: the pair <<finalDaily, isClipped>>
Guard(gbdtDaily, minDaily, maxDaily, enabled) ==
  IF enabled /\ BelowBand(gbdtDaily, minDaily) THEN <<minDaily, TRUE>>
  ELSE IF enabled /\ RGt(gbdtDaily, maxDaily) THEN <<maxDaily, TRUE>>
  ELSE <<gbdtDaily, FALSE>>

IntervalZ == Rat(128, 100)

\* variant: the lower bound is not floored at 0
LowerBoundUnfloored(finalDaily, margin) == RSub(finalDaily, margin)

\* line 205
LowerBound(finalDaily, margin) == RMax(Zero, RSub(finalDaily, margin))

predictGBDT(model, row, guardrail) ==
  LET x == FeatureVector(row, model.featureNames)
      gbdtDaily == RawPrediction(model.initialMean, model.learningRate, model.trees, x)
      baselineDaily == BaselineDaily(model, row)
      minDaily == RMul(baselineDaily, Pct(guardrail.lowPercent))
      maxDaily == RMul(baselineDaily, Pct(guardrail.highPercent))
      g == Guard(gbdtDaily, minDaily, maxDaily, guardrail.enabled)
      margin == RMul(IntervalZ, model.residualStd)
  IN  [mean |-> g[1],
       lowerBound |-> LowerBound(g[1], margin),
       upperBound |-> RAdd(g[1], margin),
       isClipped |-> g[2]]

\* ------------------------------------------------------------------------
\* Evaluation metrics (mlEngine.ts)
\* ------------------------------------------------------------------------

\* yPred[i], undefined beyond the end of yPred
PredAt(yPred, i) == IF i <= Len(yPred) THEN yPred[i] ELSE NaN

\* variant: the error keeps its sign
RAbsSigned(a) == a

\* Math.abs
RAbs(a) == <<Abs(a[1]), a[2]>>

calculateMAE(yTrue, yPred) ==
  IF Len(yTrue) = 0 THEN Zero
  ELSE RDiv(SumSeq([i \in 1..Len(yTrue) |-> RAbs(RSub(yTrue[i], PredAt(yPred, i)))]),
            I(Len(yTrue)))

\* variant: the test for a zero total sum of squares is missing
ZeroVarianceNever(ssTot) == FALSE

\* line 89: ssTot === 0
ZeroVariance(ssTot) == ssTot = Zero

calculateR2(yTrue, yPred) ==
  IF Len(yTrue) = 0 THEN Zero
  ELSE LET meanY == RDiv(SumSeq(yTrue), I(Len(yTrue)))
           ssTot == SumSeq([i \in 1..Len(yTrue) |-> RSq(RSub(yTrue[i], meanY))])
           ssRes == SumSeq([i \in 1..Len(yTrue) |-> RSq(RSub(yTrue[i], PredAt(yPred, i)))])
       IN  IF ZeroVariance(ssTot) THEN Zero ELSE RSub(One, RDiv(ssRes, ssTot))

\* ------------------------------------------------------------------------
\* Training pipeline of trainFromData (dataService.ts)
\* ------------------------------------------------------------------------

\* lines 127-133: the row with its TRAIN_TARGET cell
\* line 128: the divisor of the target
TargetDivisor(r, isRecall) ==
  IF isRecall THEN RMax(One, NumberOr(Cell(r, "days"), One)) ELSE One

WithTrainTarget(r, isRecall) ==
  LET days == TargetDivisor(r, isRecall)
  IN  With(r, "TRAIN_TARGET", RDiv(NumberOr(Cell(r, TARGET), Zero), days))

\* lines 121 and 127-133
TrainingRows(data, isRecall) ==
  [i \in 1..Len(data) |-> WithTrainTarget(preprocessRow(data[i]), isRecall)]

\* defaults of trainGBDT (mlEngine.ts line 135); the number of rounds run by
\* the model is MaxRounds
DefaultLearningRate == Rat(1, 10)

DefaultMaxDepth == 4

GuardrailOff == [enabled |-> FALSE, lowPercent |-> Zero, highPercent |-> Zero]

\* lines 143-147
TrainingPredictions(params, data, isRecall) ==
  [i \in 1..Len(data) |->
     LET r == preprocessRow(data[i])
         basePred == predictGBDT(params, r, GuardrailOff).mean
         days == IF isRecall THEN NumberOr(Cell(r, "days"), Zero) ELSE One
     IN  RMul(basePred, days)]

\* lines 149-154 (lastUpdated, the wall-clock time of the run, is left out)
TrainingMetrics(params, data, isRecall) ==
  LET yTrue == [i \in 1..Len(data) |-> Number(Cell(data[i], TARGET))]
      predictions == TrainingPredictions(params, data, isRecall)
  IN  [r2 |-> calculateR2(yTrue, predictions),
       mae |-> calculateMAE(yTrue, predictions),
       sampleSize |-> Len(data)]

\* lines 156-160
ModelPayload(modelType, params, metrics) ==
  [type |-> modelType, initialMean |-> params.initialMean,
   learningRate |-> params.learningRate, trees |-> params.trees,
   residualStd |-> params.residualStd, featureNames |-> params.featureNames,
   baselineCoeffs |-> params.baselineCoeffs, metrics |-> metrics]

\* the columns validateColumns reports as missing
MissingColumns(row, isTraining) ==
  {INPUT_FEATURES[k] : k \in {j \in 1..Len(INPUT_FEATURES) : Cell(row, INPUT_FEATURES[j]) = Undefined}}
    \cup (IF isTraining /\ Cell(row, TARGET) = Undefined THEN {TARGET} ELSE {})

\* validateColumns(row, isTraining) # null
validateColumns(row, isTraining) == MissingColumns(row, isTraining) # {}

\* ------------------------------------------------------------------------
\* Bounds of the model
\* ------------------------------------------------------------------------

\* boosting rounds of one training run (the code's default is 30)
MaxRounds == 2

\* rows of a dataset handed to the boosting loop
MaxRows == 7

\* largest 笔记数 cell of a training row
MaxNotes == 2

\* 采集量 cells of the training rows
TargetValues == {0, 1}

\* largest maxDepth handed to the tree builder (the code's default is 4)
MaxTreeDepth == 2

\* most rows of a training set whose 采集量 cell is not 0
MaxHot == 3

\* rows sharing one 笔记数 value before it steps up
Strides == {1, 2, 3}

\* learning rates tried: below 1, the largest that cannot overshoot, and beyond
LearningRates == {Rat(1, 2), I(2), I(3)}

\* gb: the boosting loop of one trainGBDT call
\* pr: one predictGBDT call
\* storedData, storedModel: the key-value store, per model type
\* run: the asynchronous operations in flight, per caller
\* call: one call of a matrix, metric or baseline helper
\* ui: the state of the App component and its event handlers in flight
VARIABLES gb, pr, storedData, storedModel, run, call, ui

vars == <<gb, pr, storedData, storedModel, run, call, ui>>

storeVars == <<storedData, storedModel, run>>

\* ------------------------------------------------------------------------
\* The boosting loop of trainGBDT, one round per step
\* ------------------------------------------------------------------------

RawRow(days, notes, likes, target) ==
  [days |-> I(days), notes |-> I(notes), likes |-> I(likes),
   favs |-> Zero, comments |-> Zero, target |-> I(target)]

Min(a, b) == IF a < b THEN a ELSE b

\* datasets of n rows: 笔记数 stepping up every stride rows, 点赞数 alternating,
\* at most MaxHot rows with a non-zero target
TrainingSets(n) ==
  { [i \in 1..n |-> RawRow(1, Min((i - 1) \div stride, MaxNotes), i % 2, ts[i])] :
      stride \in Strides,
      ts \in { t \in [1..n -> TargetValues] : Cardinality({i \in 1..n : t[i] # 0}) <= MaxHot } }

\* ------------------------------------------------------------------------
\* The key-value store (services/db.ts) and the callers
\* ------------------------------------------------------------------------

ModelType == {"ONLINE", "RECALL", "TELECOM_ONLINE"}

\* a key without a saved model reads as null
NoModel == [type |-> "null"]

\* metrics: null
NoMetrics == [type |-> "null"]

\* concurrent callers (UI event handlers whose awaits can overlap)
Procs == {1, 2}

\* operations started, over all callers
MaxCalls == 2

NoParams == [initialMean |-> Zero, learningRate |-> Zero, trees |-> <<>>, residualStd |-> Zero,
             featureNames |-> <<>>, baselineCoeffs |-> <<Zero, Zero>>]

NoFile == [rows |-> <<>>, corrupt |-> FALSE, unreadable |-> FALSE]

\* op, pc: the operation and the await it is suspended at
\* n: operations this caller has started; writes: store writes of this operation
\* pre: the stored dataset and model of modelType when the operation was called
\* a fetched file without an entry for the model type
NoRemote == [present |-> FALSE, model |-> NoModel, data |-> <<>>]

\* model, guardrail, results: the model handlePredict has loaded, the options
\* it was given and the rows it returns; remote: the entry restoreModelFromRemote
\* was given for its model type; returned: the value a finished operation returns
RunIdle == [op |-> "none", pc |-> "idle", n |-> 0, modelType |-> "ONLINE", file |-> NoFile,
            data |-> <<>>, params |-> NoParams, payload |-> NoModel, progress |-> <<>>,
            error |-> "", writes |-> 0, pre |-> [data |-> <<>>, model |-> NoModel],
            model |-> NoModel, guardrail |-> GuardrailOff, results |-> <<>>,
            remote |-> NoRemote, returned |-> "none"]

StoreIdle ==
  /\ storedData = [m \in ModelType |-> <<>>]
  /\ storedModel = [m \in ModelType |-> NoModel]
  /\ run = [p \in Procs |-> RunIdle]

\* App.tsx lines 12-15: the state of the component; loads are the model types
\* of the loadMetrics calls awaiting getStoredMetrics; mounted says whether the
\* component is there at all (the service functions can be called without it)
UiIdle == [currentModel |-> "ONLINE", metrics |-> NoMetrics, status |-> "idle",
           isInitializing |-> TRUE, loads |-> <<>>, mounted |-> FALSE]

PrIdle == [pc |-> "idle"]

CallIdle == [fn |-> "none", pc |-> "idle"]

GbIdle == [pc |-> "idle", data |-> <<>>, lr |-> Zero, maxDepth |-> 0, nEstimators |-> 0,
           i |-> 0, st |-> GBDTStart(<<>>, GBDT_FEATURES, "TRAIN_TARGET"),
           residuals |-> <<>>, outcome |-> "none", result |-> <<>>]

TrainInit ==
  \E n \in 0..MaxRows, lr \in LearningRates, d \in 1..MaxTreeDepth :
    \E data \in TrainingSets(n) :
      /\ lr = Rat(1, 2) \/ d = MaxTreeDepth
      /\ gb = [GbIdle EXCEPT !.pc = "called", !.data = TrainingRows(data, FALSE),
                             !.lr = lr, !.maxDepth = d, !.nEstimators = MaxRounds]
      /\ pr = PrIdle
      /\ call = CallIdle
      /\ StoreIdle
      /\ ui = UiIdle

\* lines 136-143
TrainStart ==
  /\ gb.pc = "called"
  /\ gb' = [gb EXCEPT !.pc = "loop", !.i = 0,
                      !.st = GBDTStart(gb.data, GBDT_FEATURES, "TRAIN_TARGET")]
  /\ UNCHANGED <<pr, call, ui, storeVars>>

\* lines 144-149, one iteration
TrainRound ==
  /\ gb.pc = "loop"
  /\ gb.i < gb.nEstimators
  /\ gb' = [gb EXCEPT !.i = @ + 1,
                      !.residuals = [k \in 1..Len(gb.st.y) |->
                                       RSub(gb.st.y[k], gb.st.currentPreds[k])],
                      !.st = GBDTRound(gb.st, gb.lr, gb.maxDepth, Len(GBDT_FEATURES))]
  /\ UNCHANGED <<pr, call, ui, storeVars>>

\* lines 150-153
TrainReturn ==
  /\ gb.pc = "loop"
  /\ gb.i >= gb.nEstimators
  /\ gb' = [gb EXCEPT !.pc = "done", !.outcome = "artifact",
                      !.result = GBDTFinish(gb.st, gb.data, GBDT_FEATURES, gb.lr)]
  /\ UNCHANGED <<pr, call, ui, storeVars>>

TrainNext == TrainStart \/ TrainRound \/ TrainReturn

TrainSpec == TrainInit /\ [][TrainNext]_vars

\* ------------------------------------------------------------------------
\* The boosting loop with the recursion of trainRegressionTree, one call per
\* step: call.stack holds the calls still to be made, the innermost first
\* ------------------------------------------------------------------------

\* nEstimators handed to trainGBDT
RoundCounts == {0, MaxRounds}

Frame(X, y, depth) == [X |-> X, y |-> y, depth |-> depth]

\* variant: the recursive calls are made at the depth of their caller
TreeCallsSameDepth(X, y, depth, maxDepth, featureCount) ==
  LET n == Len(X) IN
  IF StopAtDepth(depth, maxDepth, n) THEN <<>>
  ELSE LET b == BestSplit(AllCandidates(X, y, 0, featureCount), NoSplit) IN
       IF b.bestFeature = -1 THEN <<>>
       ELSE LET li == SelectIdx(n, LAMBDA i : RLe(X[i][b.bestFeature + 1], b.bestThreshold))
                ri == SelectIdx(n, LAMBDA i : ~RLe(X[i][b.bestFeature + 1], b.bestThreshold))
            IN  << Frame(Pick(X, li), Pick(y, li), depth),
                   Frame(Pick(X, ri), Pick(y, ri), depth) >>

\* lines 96-126: the recursive calls one call of trainRegressionTree makes
TreeCalls(X, y, depth, maxDepth, featureCount) ==
  LET n == Len(X) IN
  IF StopAtDepth(depth, maxDepth, n) THEN <<>>
  ELSE LET b == BestSplit(AllCandidates(X, y, 0, featureCount), NoSplit) IN
       IF b.bestFeature = -1 THEN <<>>
       ELSE LET li == SelectIdx(n, LAMBDA i : RLe(X[i][b.bestFeature + 1], b.bestThreshold))
                ri == SelectIdx(n, LAMBDA i : ~RLe(X[i][b.bestFeature + 1], b.bestThreshold))
            IN  << Frame(Pick(X, li), Pick(y, li), depth + 1),
                   Frame(Pick(X, ri), Pick(y, ri), depth + 1) >>

TerminationInit ==
  \E n \in {0, MaxRows - 1, MaxRows}, rounds \in RoundCounts, d \in 0..MaxTreeDepth :
    \E data \in TrainingSets(n) :
      /\ gb = [GbIdle EXCEPT !.pc = "called", !.data = TrainingRows(data, FALSE),
                             !.lr = Rat(1, 2), !.maxDepth = d, !.nEstimators = rounds]
      /\ pr = PrIdle
      /\ call = CallIdle
      /\ StoreIdle
      /\ ui = UiIdle

\* lines 144-146: a round starts, trainRegressionTree is called on the residuals
TreeCall ==
  /\ gb.pc = "loop"
  /\ gb.i < gb.nEstimators
  /\ call = CallIdle
  /\ LET residuals == [k \in 1..Len(gb.st.y) |-> RSub(gb.st.y[k], gb.st.currentPreds[k])]
     IN  /\ gb' = [gb EXCEPT !.residuals = residuals]
         /\ call' = [fn |-> "trainRegressionTree", pc |-> "running",
                     stack |-> <<Frame(gb.st.X, residuals, 0)>>, calls |-> 0]
  /\ UNCHANGED <<pr, ui, storeVars>>

\* lines 94-128: the innermost pending call runs up to its own recursive calls
TreeStep ==
  /\ call.pc = "running"
  /\ call.stack # <<>>
  /\ LET fr == Head(call.stack)
     IN  call' = [call EXCEPT !.calls = @ + 1,
                              !.stack = TreeCalls(fr.X, fr.y, fr.depth, gb.maxDepth,
                                                  Len(GBDT_FEATURES)) \o Tail(call.stack)]
  /\ UNCHANGED <<gb, pr, ui, storeVars>>

\* lines 146-148: the outermost call has returned, the round is completed
TreeReturn ==
  /\ call.pc = "running"
  /\ call.stack = <<>>
  /\ gb' = [gb EXCEPT !.i = @ + 1,
                      !.st = GBDTRound(gb.st, gb.lr, gb.maxDepth, Len(GBDT_FEATURES))]
  /\ call' = CallIdle
  /\ UNCHANGED <<pr, ui, storeVars>>

TerminationNext == TrainStart \/ TreeCall \/ TreeStep \/ TreeReturn \/ TrainReturn

\* trainGBDT runs synchronously between its call and its return: a step that
\* can be taken is taken
TerminationSpec == TerminationInit /\ [][TerminationNext]_vars /\ WF_vars(TerminationNext)

\* ------------------------------------------------------------------------
\* Training runs over the store (dataService.ts)
\* ------------------------------------------------------------------------

\* model types the callers train
CallTypes == {"ONLINE", "RECALL"}

\* the sheets caller p can upload: one good row, no row, a row without the
\* 采集量 column, and a file XLSX.read cannot parse
Files(p) ==
  { [rows |-> <<RawRow(p, p, 1, 2 * p)>>, corrupt |-> FALSE, unreadable |-> FALSE],
    [rows |-> <<>>, corrupt |-> FALSE, unreadable |-> FALSE],
    [rows |-> <<[days |-> I(p), notes |-> I(p), likes |-> One, favs |-> Zero, comments |-> Zero]>>,
     corrupt |-> FALSE, unreadable |-> FALSE],
    [rows |-> <<>>, corrupt |-> TRUE, unreadable |-> FALSE] }

RECURSIVE CallsOf(_)
CallsOf(S) ==
  IF S = {} THEN 0 ELSE LET p == CHOOSE q \in S : TRUE IN run[p].n + CallsOf(S \ {p})

CanCall(p) == run[p].pc = "idle" /\ CallsOf(Procs) < MaxCalls

Snapshot(m) == [data |-> storedData[m], model |-> storedModel[m]]

Fail(p, label) == run' = [run EXCEPT ![p].pc = "failed", ![p].error = label]

\* variant: the empty-dataset check is missing
IsEmptyDatasetNever(data) == FALSE

\* line 116
IsEmptyDataset(data) == Len(data) = 0

\* variant: the rows are saved before the model is fitted
EnterTrainFromDataSavingFirst(r, data) ==
  IF IsEmptyDataset(data)
  THEN [r EXCEPT !.data = data, !.pc = "failed", !.error = "EmptyDataset"]
  ELSE [r EXCEPT !.data = data, !.pc = "saveData",
                 !.progress = @ \o <<"preprocess", "train">>]

\* lines 116-124: trainFromData up to its first await
EnterTrainFromData(r, data) ==
  IF IsEmptyDataset(data)
  THEN [r EXCEPT !.data = data, !.pc = "failed", !.error = "EmptyDataset"]
  ELSE [r EXCEPT !.data = data, !.pc = "sleep",
                 !.progress = @ \o <<"preprocess", "train">>]

\* lines 174-175: handleTrain up to await readFile(file)
HandleTrainEntered(p, m, file) ==
  [RunIdle EXCEPT !.op = "handleTrain", !.pc = "readFile", !.n = run[p].n + 1,
                  !.modelType = m, !.file = file, !.progress = <<"read">>,
                  !.pre = Snapshot(m)]

HandleTrainCall(p) ==
  /\ CanCall(p)
  /\ \E m \in CallTypes, file \in Files(p) :
       run' = [run EXCEPT ![p] = HandleTrainEntered(p, m, file)]
  /\ UNCHANGED <<storedData, storedModel, gb, pr, call, ui>>

\* App.tsx lines 57, 103 and 155: the onProgress callback of the component
\* sets status loading each time the operation of p reports progress
OnProgress(p) ==
  ui' = IF ui.mounted /\ Len(run'[p].progress) > Len(run[p].progress)
        THEN [ui EXCEPT !.status = "loading"]
        ELSE ui

\* lines 274-285 and 176-181: readFile settles, handleTrain runs to await getData
\* (a file the FileReader fails on fires no onload: the promise stays pending)
ReadFileDone(p) ==
  /\ run[p].op = "handleTrain" /\ run[p].pc = "readFile"
  /\ ~run[p].file.unreadable
  /\ IF run[p].file.corrupt THEN Fail(p, "ReadError")
     ELSE IF Len(run[p].file.rows) = 0 THEN Fail(p, "FileEmpty")
     ELSE IF validateColumns(run[p].file.rows[1], TRUE) THEN Fail(p, "MissingColumns")
     ELSE run' = [run EXCEPT ![p].pc = "getData", ![p].progress = @ \o <<"merge">>]
  /\ UNCHANGED <<storedData, storedModel, gb, pr, call>>
  /\ OnProgress(p)

\* variant: the uploaded rows replace the stored ones
MergeHistoryNewOnly(oldData, data) == data

\* line 182: [...oldData, ...data]
MergeHistory(oldData, data) == oldData \o data

\* lines 181-182 and 116-124: getData resolves, trainFromData runs to its sleep
GetDataDone(p) ==
  /\ run[p].op = "handleTrain" /\ run[p].pc = "getData"
  /\ run' = [run EXCEPT ![p] =
               EnterTrainFromData(run[p], MergeHistory(storedData[run[p].modelType],
                                                       run[p].file.rows))]
  /\ UNCHANGED <<storedData, storedModel, gb, pr, call>>
  /\ OnProgress(p)

\* lines 111-124: trainFromData called on its own, with complete rows or none
TrainFromDataCall(p) ==
  /\ CanCall(p)
  /\ \E m \in CallTypes, file \in Files(p) :
       /\ ~file.corrupt
       /\ \A i \in 1..Len(file.rows) : ~validateColumns(file.rows[i], TRUE)
       /\ run' = [run EXCEPT ![p] =
                    EnterTrainFromData([RunIdle EXCEPT !.op = "trainFromData",
                                                       !.n = run[p].n + 1, !.modelType = m,
                                                       !.pre = Snapshot(m)],
                                       file.rows)]
  /\ UNCHANGED <<storedData, storedModel, gb, pr, call, ui>>

\* lines 124-141: the sleep ends, the model is fitted
SleepDone(p) ==
  /\ run[p].pc = "sleep"
  /\ run' = [run EXCEPT ![p].pc = "fit",
                        ![p].params = trainGBDT(TrainingRows(run[p].data, run[p].modelType = "RECALL"),
                                                GBDT_FEATURES, "TRAIN_TARGET",
                                                MaxRounds, DefaultLearningRate, DefaultMaxDepth)]
  /\ UNCHANGED <<storedData, storedModel, gb, pr, call, ui>>

\* lines 141-163: metrics and payload are built, saveData is called
FitDone(p) ==
  /\ run[p].pc = "fit"
  /\ run' = [run EXCEPT ![p].pc = "saveData",
                        ![p].payload =
                           ModelPayload(run[p].modelType, run[p].params,
                                        TrainingMetrics(run[p].params, run[p].data,
                                                        run[p].modelType = "RECALL")),
                        ![p].progress = @ \o <<"sync">>]
  /\ UNCHANGED <<storedData, storedModel, gb, pr, call>>
  /\ OnProgress(p)

\* dbService.saveData(key, value) resolves: the value is stored
saveData(m, value) == storedData' = [storedData EXCEPT ![m] = value]

\* dbService.saveModel(key, value) resolves: the value is stored
saveModel(m, value) == storedModel' = [storedModel EXCEPT ![m] = value]

\* lines 163-164: saveData resolves, saveModel is called
SaveDataDone(p) ==
  /\ run[p].pc = "saveData"
  /\ saveData(run[p].modelType, run[p].data)
  /\ run' = [run EXCEPT ![p].pc = "saveModel", ![p].writes = @ + 1]
  /\ UNCHANGED <<storedModel, gb, pr, call, ui>>

\* lines 164-166: saveModel resolves, the metrics are returned
SaveModelDone(p) ==
  /\ run[p].pc = "saveModel"
  /\ saveModel(run[p].modelType, run[p].payload)
  /\ run' = [run EXCEPT ![p].pc = "done", ![p].writes = @ + 1]
  /\ UNCHANGED <<storedData, gb, pr, call, ui>>

\* a request to the store rejects: nothing is stored, the operation fails
DbRejects(p) ==
  /\ run[p].pc \in {"getData", "saveData", "saveModel"}
  /\ Fail(p, "StorageError")
  /\ UNCHANGED <<storedData, storedModel, gb, pr, call, ui>>

\* the caller has taken the result or the failure of its operation
Settle(p) ==
  /\ run[p].pc \in {"done", "failed"}
  /\ run' = [run EXCEPT ![p] = [RunIdle EXCEPT !.n = run[p].n]]
  /\ UNCHANGED <<storedData, storedModel, gb, pr, call, ui>>

Init ==
  /\ StoreIdle
  /\ ui = UiIdle
  /\ gb = GbIdle
  /\ pr = PrIdle
  /\ call = CallIdle

Next ==
  \E p \in Procs :
    \/ HandleTrainCall(p)
    \/ ReadFileDone(p)
    \/ GetDataDone(p)
    \/ TrainFromDataCall(p)
    \/ SleepDone(p)
    \/ FitDone(p)
    \/ SaveDataDone(p)
    \/ SaveModelDone(p)
    \/ DbRejects(p)
    \/ Settle(p)

Spec == Init /\ [][Next]_vars

\* ------------------------------------------------------------------------
\* One predictGBDT call
\* ------------------------------------------------------------------------

SplitOnNotes ==
  [featureIndex |-> 0, threshold |-> I(60),
   left  |-> [featureIndex |-> -1, threshold |-> Zero, leftValue |-> I(-4)],
   right |-> [featureIndex |-> -1, threshold |-> Zero, leftValue |-> I(8)]]

\* ensembles handed to predictGBDT
PredictModels ==
  [initialMean : {I(-1), Zero, One, I(5)},
   learningRate : {Rat(1, 10), Rat(1, 2)},
   trees : {<<>>, <<SplitOnNotes>>, <<SplitOnNotes, SplitOnNotes>>},
   residualStd : {Zero, Rat(1, 2)},
   featureNames : {GBDT_FEATURES},
   baselineCoeffs : {<<Zero, Zero>>, <<Rat(1, 100), Rat(2, 100)>>}]

PredictRows == { preprocessRow(RawRow(1, n, l, 0)) : n \in {0, 100}, l \in {0, 50} }

Guardrails ==
  [enabled : BOOLEAN, lowPercent : {Zero, I(30), I(170)}, highPercent : {Zero, I(30), I(170)}]

PredictInit ==
  /\ \E model \in PredictModels, row \in PredictRows, guardrail \in Guardrails :
       pr = [pc |-> "called", model |-> model, row |-> row, guardrail |-> guardrail]
  /\ gb = GbIdle
  /\ call = CallIdle
  /\ StoreIdle
  /\ ui = UiIdle

Predict ==
  /\ pr.pc = "called"
  /\ pr' = [pc |-> "done", model |-> pr.model, row |-> pr.row, guardrail |-> pr.guardrail,
            result |-> predictGBDT(pr.model, pr.row, pr.guardrail)]
  /\ UNCHANGED <<gb, call, ui, storeVars>>

PredictNext == Predict

PredictSpec == PredictInit /\ [][PredictNext]_vars

\* ------------------------------------------------------------------------
\* One call of a matrix helper
\* ------------------------------------------------------------------------

\* row and column counts of the matrices handed to multiply
MultiplyDims == {1, 2}

MultiplyEntries == {1, 2}

\* sizes and entries of the matrices handed to invert
InvertDims == {2, 3}

InvertEntries == {0, 1}

DoubleMatrix(m) == [i \in 1..Len(m) |-> [j \in 1..Len(m[i]) |-> DInt(m[i][j])]]

\* the integer a double of small magnitude stands for
IntOf(d) == IF d.s = 0 THEN 0 ELSE d.s * d.m[1] * Pow2(d.e)

IntMatrix(m) == [i \in 1..Len(m) |-> [j \in 1..Len(m[i]) |-> IntOf(m[i][j])]]

\* m without its first row and its column j
Minor(m, j) ==
  [i \in 1..(Len(m) - 1) |->
     [k \in 1..(Len(m) - 1) |-> IF k < j THEN m[i + 1][k] ELSE m[i + 1][k + 1]]]

\* determinant of a square matrix of integers, along the first row
RECURSIVE Det(_)
Det(m) ==
  IF Len(m) = 1 THEN m[1][1]
  ELSE LET RECURSIVE Expand(_)
           Expand(j) ==
             IF j > Len(m) THEN 0
             ELSE (IF j % 2 = 1 THEN 1 ELSE -1) * m[1][j] * Det(Minor(m, j)) + Expand(j + 1)
       IN  Expand(1)

MultiplyInputs ==
  {<<>>} \cup UNION { [1..r -> [1..c -> MultiplyEntries]] : r \in MultiplyDims, c \in MultiplyDims }

\* the invertible matrices of 0 and 1: their determinant is 1 or 2 in size
InvertInputs ==
  { m \in UNION { [1..n -> [1..n -> InvertEntries]] : n \in InvertDims } : Det(m) # 0 }

MatrixInit ==
  /\ \/ \E a \in MultiplyInputs, b \in MultiplyInputs :
          call = [fn |-> "multiply", pc |-> "called",
                  a |-> DoubleMatrix(a), b |-> DoubleMatrix(b)]
     \/ \E m \in InvertInputs :
          call = [fn |-> "invert", pc |-> "called", m |-> DoubleMatrix(m)]
  /\ gb = GbIdle
  /\ pr = PrIdle
  /\ StoreIdle
  /\ ui = UiIdle

Multiply ==
  /\ call.fn = "multiply" /\ call.pc = "called"
  /\ call' = [fn |-> "multiply", pc |-> "done", a |-> call.a, b |-> call.b,
              result |-> multiply(call.a, call.b)]
  /\ UNCHANGED <<gb, pr, ui, storeVars>>

Invert ==
  /\ call.fn = "invert" /\ call.pc = "called"
  /\ call' = [fn |-> "invert", pc |-> "done", m |-> call.m, result |-> invert(call.m)]
  /\ UNCHANGED <<gb, pr, ui, storeVars>>

MatrixNext == Multiply \/ Invert

MatrixSpec == MatrixInit /\ [][MatrixNext]_vars

\* ------------------------------------------------------------------------
\* One call of an evaluation metric
\* ------------------------------------------------------------------------

\* longest yTrue handed to a metric
MaxMetricLen == 3

TrueValues == {I(1), I(2), I(3), I(10)}

\* a prediction can be missing (undefined reads as NaN)
PredValues == {I(1), I(2), I(5), I(10), NaN}

MetricInit ==
  /\ \E n \in 0..MaxMetricLen, fn \in {"calculateR2", "calculateMAE"} :
       \E yTrue \in [1..n -> TrueValues], yPred \in [1..n -> PredValues] :
         call = [fn |-> fn, pc |-> "called", yTrue |-> yTrue, yPred |-> yPred]
  /\ gb = GbIdle
  /\ pr = PrIdle
  /\ StoreIdle
  /\ ui = UiIdle

CallR2 ==
  /\ call.fn = "calculateR2" /\ call.pc = "called"
  /\ call' = [call EXCEPT !.pc = "done"] @@ [result |-> calculateR2(call.yTrue, call.yPred)]
  /\ UNCHANGED <<gb, pr, ui, storeVars>>

CallMAE ==
  /\ call.fn = "calculateMAE" /\ call.pc = "called"
  /\ call' = [call EXCEPT !.pc = "done"] @@ [result |-> calculateMAE(call.yTrue, call.yPred)]
  /\ UNCHANGED <<gb, pr, ui, storeVars>>

MetricNext == CallR2 \/ CallMAE

MetricSpec == MetricInit /\ [][MetricNext]_vars

\* ------------------------------------------------------------------------
\* One computation of the baseline coefficients
\* ------------------------------------------------------------------------

\* most records handed to calculateRobustBaselineCoeffs
MaxBaselineRows == 2

\* 采集天数 cells, below 1 included
DayValues == {Zero, Rat(1, 2), One, I(2)}

NoteValues == {0, 2}

YieldValues == {-4, 0, 4}

BaselineRows ==
  { [days |-> d, notes |-> I(n), likes |-> I(IF n = 0 THEN 3 ELSE 0), favs |-> Zero,
     comments |-> Zero, target |-> I(t)] :
      d \in DayValues, n \in NoteValues, t \in YieldValues }

BaselineInit ==
  /\ \E n \in 0..MaxBaselineRows : \E data \in [1..n -> BaselineRows] :
       call = [fn |-> "calculateRobustBaselineCoeffs", pc |-> "called", data |-> data]
  /\ gb = GbIdle
  /\ pr = PrIdle
  /\ StoreIdle
  /\ ui = UiIdle

\* line 139 of trainGBDT
CallBaselineCoeffs ==
  /\ call.fn = "calculateRobustBaselineCoeffs" /\ call.pc = "called"
  /\ call' = [fn |-> call.fn, pc |-> "done", data |-> call.data,
              result |-> calculateRobustBaselineCoeffs(call.data)]
  /\ UNCHANGED <<gb, pr, ui, storeVars>>

BaselineNext == CallBaselineCoeffs

BaselineSpec == BaselineInit /\ [][BaselineNext]_vars

\* ------------------------------------------------------------------------
\* Properties of the boosting loop (checked under TrainSpec)
\* ------------------------------------------------------------------------

Max(a, b) == IF a < b THEN b ELSE a

\* number of split nodes on the longest root-to-leaf path
RECURSIVE SplitDepth(_)
SplitDepth(tree) ==
  IF IsLeaf(tree) THEN 0 ELSE 1 + Max(SplitDepth(tree.left), SplitDepth(tree.right))

RECURSIVE NodeCount(_)
NodeCount(tree) ==
  IF IsLeaf(tree) THEN 1 ELSE 1 + NodeCount(tree.left) + NodeCount(tree.right)

\* the branches predictTree takes for x, 0 for left and 1 for right
RECURSIVE LeafPath(_, _)
LeafPath(tree, x) ==
  IF IsLeaf(tree) THEN <<>>
  ELSE IF GoesLeft(tree, x) THEN <<0>> \o LeafPath(tree.left, x)
  ELSE <<1>> \o LeafPath(tree.right, x)

\* the paths of all leaves of a tree, and the value stored at the end of one
RECURSIVE LeafPaths(_)
LeafPaths(tree) ==
  IF IsLeaf(tree) THEN {<<>>}
  ELSE {<<0>> \o p : p \in LeafPaths(tree.left)} \cup {<<1>> \o p : p \in LeafPaths(tree.right)}

RECURSIVE LeafValueAt(_, _)
LeafValueAt(tree, path) ==
  IF IsLeaf(tree) THEN tree.leftValue
  ELSE IF Head(path) = 0 THEN LeafValueAt(tree.left, Tail(path))
  ELSE LeafValueAt(tree.right, Tail(path))

LastTree == gb.st.trees[Len(gb.st.trees)]

StartSSE == TrainingSSE(GBDTStart(gb.data, GBDT_FEATURES, "TRAIN_TARGET"))

SSEStepDown ==
  (gb.pc = "loop" /\ gb'.pc = "loop") => RLe(TrainingSSE(gb'.st), TrainingSSE(gb.st))

\* C6 as stated: for every learningRate > 0 and maxDepth > 0 the training sum
\* of squared errors after a boosting round is never greater than before it.
SSENonIncreasingAnyRate ==
  [][(RGt(gb.lr, Zero) /\ gb.maxDepth > 0) => SSEStepDown]_vars

\* C6 amended: for every learningRate with 0 < learningRate <= 2 and maxDepth > 0
\* the training sum of squared errors after a boosting round is never greater
\* than before it.
SSENonIncreasing ==
  [][(RGt(gb.lr, Zero) /\ RLe(gb.lr, I(2)) /\ gb.maxDepth > 0) => SSEStepDown]_vars

\* a round with a split tree at a rate of at most 2 has lowered the SSE
SSEWitness ==
  /\ gb.pc = "loop" /\ gb.i >= 1
  /\ RLe(gb.lr, I(2))
  /\ ~IsLeaf(LastTree)
  /\ RLt(TrainingSSE(gb.st), StartSSE)

\* C7: every leaf of the tree built in a round holds the mean of the round's
\* targets over exactly the training rows that predictTree routes to that leaf.
LeafValueIsRoutedMean ==
  (gb.i >= 1 /\ Len(gb.st.y) > 0) =>
    \A p \in LeafPaths(LastTree) :
      LET routed == SelectIdx(Len(gb.st.X), LAMBDA j : LeafPath(LastTree, gb.st.X[j]) = p)
      IN  /\ Len(routed) > 0
          /\ LeafValueAt(LastTree, p) = RDiv(SumSeq(Pick(gb.residuals, routed)), I(Len(routed)))

\* a tree of two levels whose leaves hold different means
LeafMeanWitness ==
  /\ gb.i >= 1
  /\ SplitDepth(LastTree) = 2
  /\ \E p, q \in LeafPaths(LastTree) : LeafValueAt(LastTree, p) # LeafValueAt(LastTree, q)

\* C8: every tree of the ensemble is finite and has at most maxDepth split
\* nodes on any root-to-leaf path.
TreeDepthBounded ==
  \A k \in 1..Len(gb.st.trees) :
    /\ SplitDepth(gb.st.trees[k]) <= gb.maxDepth
    /\ NodeCount(gb.st.trees[k]) <= Pow2(gb.maxDepth + 1) - 1

\* the depth limit cut a tree that the rows alone would have split further
TreeDepthWitness ==
  /\ gb.i >= 1
  /\ gb.maxDepth = 1
  /\ SplitDepth(LastTree) = 1
  /\ SplitDepth(trainRegressionTree(gb.st.X, gb.residuals, 0, 2, Len(GBDT_FEATURES))) = 2

\* sum over the rows idx of (y - mean)^2, as sum of y^2 less (sum of y)^2 / n
SpreadOf(y, idx) ==
  RSub(SumSeq([k \in 1..Len(idx) |-> RSq(y[idx[k]])]),
       RDiv(RSq(SumSeq([k \in 1..Len(idx) |-> y[idx[k]]])), I(Len(idx))))

\* the rows of idx on either side of threshold t of feature f
SideOf(X, idx, f, t, left) ==
  Pick(idx, SelectIdx(Len(idx), LAMBDA k : RLe(X[idx[k]][f + 1], t) = left))

SplitCost(X, y, idx, f, t) ==
  RAdd(SpreadOf(y, SideOf(X, idx, f, t, TRUE)), SpreadOf(y, SideOf(X, idx, f, t, FALSE)))

\* the midpoints <<f, t>> between neighbouring values of feature f over idx
MidpointsOf(X, idx, f) ==
  LET vals == {X[idx[k]][f + 1] : k \in 1..Len(idx)}
  IN  { <<f, RDiv(RAdd(p[1], p[2]), I(2))>> :
          p \in { q \in vals \X vals :
                    /\ RLt(q[1], q[2])
                    /\ \A w \in vals : ~(RLt(q[1], w) /\ RLt(w, q[2])) } }

Midpoints(X, idx, featureCount) ==
  UNION { MidpointsOf(X, idx, f) : f \in 0..(featureCount - 1) }

\* the split of a node over the rows idx is a midpoint of least cost, and
\* among those the one of the smallest feature index and then threshold
ChosenIsBest(tree, X, y, idx, featureCount) ==
  LET f == tree.featureIndex
      t == tree.threshold
      cost == SplitCost(X, y, idx, f, t)
  IN  /\ <<f, t>> \in Midpoints(X, idx, featureCount)
      /\ \A c \in Midpoints(X, idx, featureCount) :
           LET other == SplitCost(X, y, idx, c[1], c[2])
           IN  \/ RLt(cost, other)
               \/ cost = other /\ (f < c[1] \/ (f = c[1] /\ RLe(t, c[2])))

RECURSIVE EverySplitIsBest(_, _, _, _, _)
EverySplitIsBest(tree, X, y, idx, featureCount) ==
  IsLeaf(tree) \/
    /\ ChosenIsBest(tree, X, y, idx, featureCount)
    /\ EverySplitIsBest(tree.left, X, y,
                        SideOf(X, idx, tree.featureIndex, tree.threshold, TRUE), featureCount)
    /\ EverySplitIsBest(tree.right, X, y,
                        SideOf(X, idx, tree.featureIndex, tree.threshold, FALSE), featureCount)

\* C17: at every split node of the tree built in a round, the chosen feature
\* and threshold have the least total sum of squared errors of the two sides
\* among all midpoint thresholds, and among the candidates of that least cost
\* the smallest feature index and, within the feature, the smallest threshold.
SplitIsLeastCostFirst ==
  (gb.i >= 1) =>
     EverySplitIsBest(LastTree, gb.st.X, gb.residuals,
                      [k \in 1..Len(gb.st.X) |-> k], Len(GBDT_FEATURES))

\* a root split of cost above 0 that ties with a candidate of another feature
SplitTieWitness ==
  /\ gb.i >= 1
  /\ ~IsLeaf(LastTree)
  /\ LET idx == [k \in 1..Len(gb.st.X) |-> k]
         cost == SplitCost(gb.st.X, gb.residuals, idx, LastTree.featureIndex, LastTree.threshold)
     IN  /\ RGt(cost, Zero)
         /\ \E c \in Midpoints(gb.st.X, idx, Len(GBDT_FEATURES)) :
              /\ c[1] # LastTree.featureIndex
              /\ SplitCost(gb.st.X, gb.residuals, idx, c[1], c[2]) = cost

\* the calls a step of the recursion has put on the stack
NewCalls == SubSeq(call'.stack, 1, Len(call'.stack) - Len(call.stack) + 1)

\* the most calls a call of trainRegressionTree on n rows can lead to, itself
\* included, when every recursive call gets fewer rows and never none
CallsBound(n) == IF n > 0 THEN 2 * n - 1 ELSE 1

RECURSIVE PendingBound(_)
PendingBound(stack) ==
  IF stack = <<>> THEN 0 ELSE CallsBound(Len(Head(stack).X)) + PendingBound(Tail(stack))

\* the most steps a round can take: the call, the calls it leads to, the return
RoundBound == CallsBound(Len(gb.data)) + 2

\* the most steps the trainGBDT call can still take
StepsLeft ==
  IF gb.pc = "done" THEN 0
  ELSE IF gb.pc = "called" THEN 2 + gb.nEstimators * RoundBound
  ELSE IF call = CallIdle THEN 1 + (gb.nEstimators - gb.i) * RoundBound
  ELSE (gb.nEstimators - gb.i - 1) * RoundBound + PendingBound(call.stack) + 2

\* the call is at a point from which the code goes on
CanStep ==
  \/ gb.pc = "called"
  \/ gb.pc = "loop" /\ call = CallIdle
  \/ gb.pc = "loop" /\ call.pc = "running"

\* C19: a trainGBDT call, for every dataset, nEstimators and maxDepth, comes
\* to its end: until it has returned it can always go on, every step lowers
\* the number of steps it can still take, which is never below 0, every
\* recursive call of trainRegressionTree is one level deeper than its caller
\* and gets a non-empty row set strictly smaller than its caller's, a call at
\* depth maxDepth makes no further call, the calls made for one tree are as
\* many as the tree has nodes, and the loop returns after nEstimators rounds.
TrainingTerminates ==
  /\ [](/\ StepsLeft >= 0
        /\ gb.pc # "done" => CanStep
        /\ gb.pc = "done" => (gb.i = gb.nEstimators /\ gb.outcome = "artifact" /\ call = CallIdle))
  /\ [][StepsLeft' < StepsLeft]_vars
  /\ [][(call.pc = "running" /\ call'.pc = "running") =>
          /\ Head(call.stack).depth >= gb.maxDepth => Len(NewCalls) = 0
          /\ \A k \in 1..Len(NewCalls) :
               /\ NewCalls[k].depth = Head(call.stack).depth + 1
               /\ Len(NewCalls[k].X) > 0
               /\ Len(NewCalls[k].X) < Len(Head(call.stack).X)
               /\ Len(NewCalls[k].y) = Len(NewCalls[k].X)]_vars
  /\ [][(call.pc = "running" /\ call' = CallIdle) =>
          call.calls = NodeCount(gb'.st.trees[Len(gb'.st.trees)])]_vars

\* in the second round a call at depth 1 has made two further calls
RecursionWitness ==
  /\ gb.pc = "loop" /\ gb.i = 1
  /\ call.pc = "running"
  /\ call.calls = 2
  /\ Len(call.stack) = 3
  /\ call.stack[1].depth = 2 /\ call.stack[2].depth = 2 /\ call.stack[3].depth = 1

\* C10: trainGBDT given zero training records ends in a labeled failure, it
\* does not return an artifact (whose initialMean would be NaN).
EmptyTrainingFails ==
  (gb.pc = "done" /\ Len(gb.data) = 0) =>
     (gb.outcome = "failure" /\ ~IsNaN(gb.st.initialMean))

\* ------------------------------------------------------------------------
\* Properties of predictGBDT (checked under PredictSpec)
\* ------------------------------------------------------------------------

\* initialMean + sum over the trees of learningRate * predictTree(tree, x)
EnsembleSum ==
  LET x == [k \in 1..Len(pr.model.featureNames) |-> pr.row[pr.model.featureNames[k]]]
  IN  RAdd(pr.model.initialMean,
           SumSeq([k \in 1..Len(pr.model.trees) |->
                     RMul(pr.model.learningRate, predictTree(pr.model.trees[k], x))]))

\* (kA*countA + kB*countB) * percent / 200
BandBound(percent) ==
  RDiv(RMul(RAdd(RMul(pr.model.baselineCoeffs[1], pr.row.notes),
                 RMul(pr.model.baselineCoeffs[2], pr.row.likes)), percent), I(200))

SpecExample(raw) ==
  /\ pr.model.baselineCoeffs = <<Rat(1, 100), Rat(2, 100)>>
  /\ pr.row.notes = I(100) /\ pr.row.likes = I(50)
  /\ pr.guardrail = [enabled |-> TRUE, lowPercent |-> I(30), highPercent |-> I(170)]
  /\ EnsembleSum = raw

GuardrailOffIsRaw ==
  (pr.pc = "done" /\ ~pr.guardrail.enabled) =>
    (pr.result.mean = EnsembleSum /\ ~pr.result.isClipped)

\* a disabled guardrail whose band would have clipped the prediction
GuardrailOffWitness ==
  /\ pr.pc = "done"
  /\ ~pr.guardrail.enabled
  /\ Len(pr.model.trees) = 2
  /\ RLt(BandBound(pr.guardrail.lowPercent), BandBound(pr.guardrail.highPercent))
  /\ RGt(EnsembleSum, BandBound(pr.guardrail.highPercent))
  /\ pr.result.mean = EnsembleSum

\* C16: every prediction returns mean + 1.28 * residualStd as its upper bound
\* and mean - 1.28 * residualStd as its lower bound, mean being the returned
\* (post-guardrail) mean, with 0 as the lower bound when that difference is
\* negative; the lower bound is never negative.
IntervalAroundMean ==
  (pr.pc = "done") =>
    LET halfWidth == RDiv(RMul(I(128), pr.model.residualStd), I(100))
        low == RSub(pr.result.mean, halfWidth)
    IN  /\ pr.result.upperBound = RAdd(pr.result.mean, halfWidth)
        /\ pr.result.lowerBound = (IF RLt(low, Zero) THEN Zero ELSE low)
        /\ ~RLt(pr.result.lowerBound, Zero)

\* a clipped mean of 0.3 with residualStd 0.5: the interval is [0, 0.94]
IntervalWitness ==
  /\ pr.pc = "done"
  /\ pr.result.isClipped /\ pr.result.mean = Rat(3, 10)
  /\ pr.result.mean # EnsembleSum
  /\ pr.model.residualStd = Rat(1, 2)
  /\ pr.result.lowerBound = Zero
  /\ pr.result.upperBound = Rat(94, 100)

\* C28: isClipped is true exactly when the returned mean differs from the raw
\* ensemble prediction.
ClippedIffMeanMoved ==
  (pr.pc = "done") => (pr.result.isClipped <=> pr.result.mean # EnsembleSum)

\* an enabled guardrail whose low bound the raw prediction sits on: not clipped
ClippedWitness ==
  /\ pr.pc = "done"
  /\ pr.guardrail.enabled
  /\ EnsembleSum = BandBound(pr.guardrail.lowPercent)
  /\ RLt(EnsembleSum, BandBound(pr.guardrail.highPercent))
  /\ ~pr.result.isClipped
  /\ pr.result.mean = EnsembleSum

\* C29: with the guardrail enabled the returned mean lies between
\* baseline*lowPercent/100 and baseline*highPercent/100, whatever lowPercent
\* and highPercent the caller supplies.
MeanWithinBand ==
  (pr.pc = "done" /\ pr.guardrail.enabled) =>
    /\ RLe(BandBound(pr.guardrail.lowPercent), pr.result.mean)
    /\ RLe(pr.result.mean, BandBound(pr.guardrail.highPercent))

\* C30: every result has lowerBound <= mean <= upperBound, also when the
\* ensemble prediction is negative.
MeanWithinInterval ==
  (pr.pc = "done") =>
    /\ RLe(pr.result.lowerBound, pr.result.mean)
    /\ RLe(pr.result.mean, pr.result.upperBound)

\* ------------------------------------------------------------------------
\* Properties of training runs over the store (checked under Spec)
\* ------------------------------------------------------------------------

Training(p) == run[p].op \in {"handleTrain", "trainFromData"} /\ run[p].pc # "idle"

\* no other caller has started any operation
OnlyCaller(p) == \A q \in Procs \ {p} : run[q].n = 0

Stored(m) == [data |-> storedData[m], model |-> storedModel[m]]

\* the dataset and model the run of p writes, once it has built them
Produced(p) == [data |-> run[p].data, model |-> run[p].payload]

\* s occurs in t as a block of consecutive rows
Contains(t, s) ==
  \E k \in 0..(Len(t) - Len(s)) : \A i \in 1..Len(s) : t[k + i] = s[i]

\* C1: wherever a training run can be observed (between its awaits and after
\* a failed save) the stored dataset and model of its type are both the values
\* from before the run or both the values it produced.
TrainingIsAtomic ==
  \A p \in Procs :
    (Training(p) /\ OnlyCaller(p)) =>
       \/ Stored(run[p].modelType) = run[p].pre
       \/ /\ run[p].pc \in {"saveData", "saveModel", "done", "failed"}
          /\ Stored(run[p].modelType) = Produced(p)

\* C2: when a training run has failed, at whatever step, the stored dataset
\* and model of its type are what they were before the run started.
FailedTrainingLeavesStore ==
  \A p \in Procs :
    (Training(p) /\ OnlyCaller(p) /\ run[p].pc = "failed") =>
       Stored(run[p].modelType) = run[p].pre

\* C3: after two handleTrain runs for one model type have both completed, the
\* stored dataset holds the rows stored before them and the rows of both files.
NoUploadLost ==
  \A p, q \in Procs :
    ( /\ p # q
      /\ run[p].op = "handleTrain" /\ run[p].pc = "done"
      /\ run[q].op = "handleTrain" /\ run[q].pc = "done"
      /\ run[p].modelType = run[q].modelType ) =>
       /\ Contains(storedData[run[p].modelType], run[p].file.rows)
       /\ Contains(storedData[run[p].modelType], run[q].file.rows)
       /\ Contains(storedData[run[p].modelType], run[p].pre.data)
       /\ Contains(storedData[run[p].modelType], run[q].pre.data)

\* C9: trainFromData called with zero records fails with the empty-dataset
\* label before any progress callback, model fit or store write.
EmptyDatasetFailsFirst ==
  \A p \in Procs :
    (run[p].op = "trainFromData" /\ run[p].pc # "idle" /\ Len(run[p].data) = 0) =>
       /\ run[p].pc = "failed"
       /\ run[p].error = "EmptyDataset"
       /\ run[p].progress = <<>>
       /\ run[p].params = NoParams
       /\ run[p].payload = NoModel
       /\ run[p].writes = 0

\* a direct call with no records has failed while the store holds a trained model
EmptyDatasetWitness ==
  \E p \in Procs :
    /\ run[p].op = "trainFromData" /\ Len(run[p].data) = 0
    /\ run[p].pc = "failed" /\ run[p].error = "EmptyDataset"
    /\ storedModel[run[p].modelType] # NoModel
    /\ Stored(run[p].modelType) = run[p].pre

\* the progress messages of handleTrain and, from the third, of trainFromData
PhaseOrder == <<"read", "merge", "preprocess", "train", "sync">>

IsPrefix(s, t) == Len(s) <= Len(t) /\ SubSeq(t, 1, Len(s)) = s

\* the run of p has fitted its model and computed the metrics of the payload
FitCompleted(p) ==
  /\ run[p].params # NoParams
  /\ run[p].payload # NoModel
  /\ run[p].payload.type = run[p].modelType
  /\ run[p].payload.trees = run[p].params.trees

\* a step that changes the stored dataset or the stored model
StoreWritten == storedData' # storedData \/ storedModel' # storedModel

\* C18: the progress callbacks of a handleTrain run come in the order read
\* file, merge history, feature preprocessing, model training, database sync
\* (those of a direct trainFromData call in the order of the last three), and
\* the store is written only by a run that has emitted all of them and has
\* completed its model fit and its metrics.
PhasesInStrictSequence ==
  /\ [](\A p \in Procs :
          /\ run[p].op = "handleTrain" => IsPrefix(run[p].progress, PhaseOrder)
          /\ run[p].op = "trainFromData" => IsPrefix(run[p].progress, SubSeq(PhaseOrder, 3, 5))
          /\ run[p].writes > 0 => FitCompleted(p))
  /\ [][StoreWritten =>
          \E p \in Procs :
            /\ run[p].pc \in {"saveData", "saveModel"}
            /\ run'[p].writes = run[p].writes + 1
            /\ FitCompleted(p)
            /\ run[p].progress \in {PhaseOrder, SubSeq(PhaseOrder, 3, 5)}]_vars

\* a handleTrain run has gone through all five phases and written both values
PhasesWitness ==
  \E p \in Procs :
    /\ run[p].op = "handleTrain" /\ run[p].pc = "done"
    /\ run[p].progress = PhaseOrder
    /\ run[p].writes = 2
    /\ Stored(run[p].modelType) = Produced(p)

\* no other caller has worked on the model type of p since before p's call
Undisturbed(p) ==
  \A q \in Procs \ {p} :
    \/ run[q].n = 0
    \/ run[q].n = 1 /\ run[q].pc # "idle" /\ run[q].modelType # run[p].modelType

\* the payload trainFromData builds from the rows data for model type m
FittedOn(data, m) ==
  LET params == trainGBDT(TrainingRows(data, m = "RECALL"), GBDT_FEATURES, "TRAIN_TARGET",
                          MaxRounds, DefaultLearningRate, DefaultMaxDepth)
  IN  ModelPayload(m, params, TrainingMetrics(params, data, m = "RECALL"))

MultiplyChecksDimensions ==
  (call.fn = "multiply" /\ call.pc = "done" /\ Len(call.a) > 0
     /\ Len(call.a[1]) # Len(call.b)) =>
       /\ call.result.outcome \in {"DimensionMismatch", "TypeError"}
       /\ call.result.outcome # "matrix"

\* |x - y| <= 1e-6
WithinTolerance(x, y) ==
  LET d == DAbs(DSub(x, y)) IN d.k = "num" /\ ~DLt(D1em6, d)

\* C12: for every invertible matrix M of small integers (well-conditioned),
\* one with a zero on its diagonal included, every entry of
\* multiply(invert(M), M) is within 1e-6 of the identity matrix.
InverseTimesMatrixIsIdentity ==
  (call.fn = "invert" /\ call.pc = "done" /\ Det(IntMatrix(call.m)) # 0) =>
     LET product == multiply(call.result, call.m).result
     IN  \A i \in 1..Len(call.m), j \in 1..Len(call.m) :
           WithinTolerance(product[i][j], IF i = j THEN DInt(1) ELSE DZero)

\* ------------------------------------------------------------------------
\* Properties of the evaluation metrics (checked under MetricSpec)
\* ------------------------------------------------------------------------

AllEqual(ys) == \A i, j \in 1..Len(ys) : ys[i] = ys[j]

SumOver(n, F(_)) == SumSeq([i \in 1..n |-> F(i)])

\* C13: calculateR2 returns 1 - SSres/SStot when the total sum of squares of
\* yTrue (the sum of y^2 less the squared sum over n) is not zero, and 0 when
\* it is zero, that is when all yTrue are equal, whatever yPred is.
R2FollowsConvention ==
  (call.fn = "calculateR2" /\ call.pc = "done") =>
     LET n == Len(call.yTrue)
         ssRes == SumOver(n, LAMBDA i : RSq(RSub(call.yTrue[i], call.yPred[i])))
         ssTot == RSub(SumOver(n, LAMBDA i : RSq(call.yTrue[i])),
                       RDiv(RSq(SumSeq(call.yTrue)), I(n)))
     IN  IF AllEqual(call.yTrue) THEN call.result = Zero
         ELSE /\ ssTot # Zero
              /\ call.result = RDiv(RSub(ssTot, ssRes), ssTot)

\* calculateR2([10,10,10], [10,10,10]) has returned 0
R2ZeroVarianceWitness ==
  /\ call.fn = "calculateR2" /\ call.pc = "done"
  /\ call.yTrue = <<I(10), I(10), I(10)>> /\ call.yPred = <<I(10), I(10), I(10)>>
  /\ call.result = Zero

\* C14: calculateMAE returns the sum of |yTrue[i] - yPred[i]| divided by the
\* number of entries of yTrue, for sequences of one length ([1,2,3] against
\* [1,2,5] gives 2/3).
MAEIsMeanAbsoluteError ==
  (call.fn = "calculateMAE" /\ call.pc = "done" /\ Len(call.yTrue) > 0) =>
     LET n == Len(call.yTrue)
         Err(i) == IF RLt(call.yTrue[i], call.yPred[i])
                   THEN RSub(call.yPred[i], call.yTrue[i])
                   ELSE RSub(call.yTrue[i], call.yPred[i])
     IN  /\ RMul(call.result, I(n)) = SumOver(n, Err)
         /\ (call.yTrue = <<I(1), I(2), I(3)>> /\ call.yPred = <<I(1), I(2), I(5)>>)
               => call.result = Rat(2, 3)

\* calculateMAE([1,2,3], [1,2,5]) has returned 2/3
MAEExampleWitness ==
  /\ call.fn = "calculateMAE" /\ call.pc = "done"
  /\ call.yTrue = <<I(1), I(2), I(3)>> /\ call.yPred = <<I(1), I(2), I(5)>>
  /\ call.result = Rat(2, 3)

\* ------------------------------------------------------------------------
\* Properties of the baseline coefficients (checked under BaselineSpec)
\* ------------------------------------------------------------------------

\* the k-th smallest element of s
KthSmallest(s, k) ==
  CHOOSE x \in {s[i] : i \in 1..Len(s)} :
    /\ Cardinality({i \in 1..Len(s) : RLt(s[i], x)}) < k
    /\ Cardinality({i \in 1..Len(s) : RLe(s[i], x)}) >= k

\* the middle element, or the mean of the two middle elements
MiddleOf(s) ==
  IF Len(s) % 2 = 1 THEN KthSmallest(s, (Len(s) + 1) \div 2)
  ELSE RDiv(RAdd(KthSmallest(s, Len(s) \div 2), KthSmallest(s, Len(s) \div 2 + 1)), I(2))

\* median over the records of target / (days * max(1, count)), floored at 0
FlooredMedianRatio(data, col, Days(_)) ==
  LET ratios == [i \in 1..Len(data) |->
                   RDiv(data[i].target, RMul(Days(data[i]), RMax(One, data[i][col])))]
      mid == MiddleOf(ratios)
  IN  IF RLt(mid, Zero) THEN Zero ELSE mid

DaysAsGiven(row) == row.days

\* a missing or zero days cell counts as 1, and so does one below 1
DaysAtLeastOne(row) == IF RLt(row.days, One) THEN One ELSE row.days

CoeffsAre(Days(_)) ==
  (call.fn = "calculateRobustBaselineCoeffs" /\ call.pc = "done" /\ Len(call.data) > 0) =>
     /\ call.result[1] = FlooredMedianRatio(call.data, "notes", Days)
     /\ call.result[2] = FlooredMedianRatio(call.data, "likes", Days)

MathRound(a) ==
  IF IsNaN(a) \/ a[2] = 0 THEN a ELSE I((2 * a[1] + a[2]) \div (2 * a[2]))

\* variant: the caller's options are used for every model type
ActiveGuardrailAsGiven(isRecall, guardrailOptions) == guardrailOptions

\* lines 208-210
ActiveGuardrail(isRecall, guardrailOptions) ==
  IF isRecall THEN guardrailOptions
  ELSE [enabled |-> FALSE, lowPercent |-> I(30), highPercent |-> I(170)]

\* line 220
PredictMultiplier(row, isRecall) ==
  IF isRecall THEN NumberOr(Cell(row, "days"), Zero) ELSE One

\* lines 203-231: the result row of one row of the file
PredictRow(model, row, isRecall, guardrailOptions) ==
  LET preds == predictGBDT(model, preprocessRow(row), ActiveGuardrail(isRecall, guardrailOptions))
      multiplier == PredictMultiplier(row, isRecall)
  IN  [row |-> row,
       predicted |-> MathRound(RMul(preds.mean, multiplier)),
       lower |-> MathRound(RMul(preds.lowerBound, multiplier)),
       upper |-> MathRound(RMul(preds.upperBound, multiplier)),
       isClipped |-> preds.isClipped]

\* a sheet row without the 采集量 column
PredictSheetRow(days, notes, likes) ==
  [days |-> I(days), notes |-> I(notes), likes |-> I(likes), favs |-> Zero, comments |-> Zero]

\* the sheets caller p can hand to handlePredict: the row it trains on, a row
\* of 0 collection days, no row, a row without the 点赞数 column, and a file
\* XLSX.read cannot parse
PredictFiles(p) ==
  { [rows |-> <<PredictSheetRow(p, p, 1)>>, corrupt |-> FALSE, unreadable |-> FALSE],
    [rows |-> <<PredictSheetRow(0, p, 1), PredictSheetRow(3, p, 1)>>, corrupt |-> FALSE, unreadable |-> FALSE],
    [rows |-> <<>>, corrupt |-> FALSE, unreadable |-> FALSE],
    [rows |-> <<[days |-> I(p), notes |-> I(p), favs |-> Zero, comments |-> Zero]>>,
     corrupt |-> FALSE, unreadable |-> FALSE],
    [rows |-> <<>>, corrupt |-> TRUE, unreadable |-> FALSE] }

\* the guardrail options of App.tsx lines 108-112, with the defaults of lines 24-25
PredictGuardrails ==
  { [enabled |-> e, lowPercent |-> I(30), highPercent |-> I(170)] : e \in BOOLEAN }

\* lines 191-192: handlePredict up to await getModel
HandlePredictEntered(p, m, file, g) ==
  [RunIdle EXCEPT !.op = "handlePredict", !.pc = "getModel", !.n = run[p].n + 1,
                  !.modelType = m, !.file = file, !.guardrail = g,
                  !.progress = <<"load">>, !.pre = Snapshot(m)]

HandlePredictCall(p) ==
  /\ CanCall(p)
  /\ \E m \in ModelType, file \in PredictFiles(p), g \in PredictGuardrails :
       run' = [run EXCEPT ![p] = HandlePredictEntered(p, m, file, g)]
  /\ UNCHANGED <<storedData, storedModel, gb, pr, call, ui>>

\* lines 192-196: getModel resolves, handlePredict runs to await readFile
GetModelDone(p) ==
  /\ run[p].op = "handlePredict" /\ run[p].pc = "getModel"
  /\ IF storedModel[run[p].modelType] = NoModel THEN Fail(p, "NotTrained")
     ELSE run' = [run EXCEPT ![p].pc = "readFile", ![p].model = storedModel[run[p].modelType],
                             ![p].progress = @ \o <<"predict">>]
  /\ UNCHANGED <<storedData, storedModel, gb, pr, call>>
  /\ OnProgress(p)

\* variant: the result rows are saved as the dataset of the model type
PredictReadFileDoneSaving(p) ==
  /\ run[p].op = "handlePredict" /\ run[p].pc = "readFile"
  /\ run' = [run EXCEPT ![p].pc = "done", ![p].returned = "rows"]
  /\ storedData' = [storedData EXCEPT ![run[p].modelType] = run[p].file.rows]
  /\ UNCHANGED <<storedModel, gb, pr, call, ui>>

\* lines 274-285 and 196-234: readFile settles, the rows are predicted
PredictReadFileDone(p) ==
  /\ run[p].op = "handlePredict" /\ run[p].pc = "readFile"
  /\ ~run[p].file.unreadable
  /\ IF run[p].file.corrupt THEN Fail(p, "ReadError")
     ELSE IF Len(run[p].file.rows) = 0 THEN Fail(p, "FileEmpty")
     ELSE IF validateColumns(run[p].file.rows[1], FALSE) THEN Fail(p, "MissingColumns")
     ELSE run' = [run EXCEPT ![p].pc = "done", ![p].returned = "rows",
                             ![p].results =
                                [i \in 1..Len(run[p].file.rows) |->
                                   PredictRow(run[p].model, run[p].file.rows[i],
                                              run[p].modelType = "RECALL", run[p].guardrail)]]
  /\ UNCHANGED <<storedData, storedModel, gb, pr, call>>
  /\ OnProgress(p)

\* lines 40-41: clearModelData up to await saveModel(key, null)
ClearEntered(p, m) ==
  [RunIdle EXCEPT !.op = "clearModelData", !.pc = "clearModel", !.n = run[p].n + 1,
                  !.modelType = m, !.pre = Snapshot(m)]

ClearCall(p) ==
  /\ CanCall(p)
  /\ \E m \in CallTypes :
       run' = [run EXCEPT ![p] = ClearEntered(p, m)]
  /\ UNCHANGED <<storedData, storedModel, gb, pr, call, ui>>

\* lines 41-42: saveModel(key, null) resolves, saveData(key, []) is called
ClearModelDone(p) ==
  /\ run[p].pc = "clearModel"
  /\ saveModel(run[p].modelType, NoModel)
  /\ run' = [run EXCEPT ![p].pc = "clearData", ![p].writes = @ + 1]
  /\ UNCHANGED <<storedData, gb, pr, call, ui>>

\* lines 42-43: saveData(key, []) resolves, clearModelData returns
ClearDataDone(p) ==
  /\ run[p].pc = "clearData"
  /\ saveData(run[p].modelType, <<>>)
  /\ run' = [run EXCEPT ![p].pc = "done", ![p].writes = @ + 1]
  /\ UNCHANGED <<storedModel, gb, pr, call, ui>>

\* a model entry of the remote file, as published for model type m after a
\* training run on one row
RemoteModel(m) ==
  [type |-> m, initialMean |-> I(2), learningRate |-> DefaultLearningRate, trees |-> <<>>,
   residualStd |-> Zero, featureNames |-> GBDT_FEATURES, baselineCoeffs |-> <<I(2), I(2)>>,
   metrics |-> [r2 |-> Zero, mae |-> Zero, sampleSize |-> 1]]

\* remoteData[modelType] of the fetched file: nothing, a model with its rows, a
\* model without rows, rows without a model
Remotes(p, m) ==
  { NoRemote,
    [present |-> TRUE, model |-> RemoteModel(m), data |-> <<RawRow(p, p, 1, 2 * p)>>],
    [present |-> TRUE, model |-> RemoteModel(m), data |-> <<>>],
    [present |-> TRUE, model |-> NoModel, data |-> <<RawRow(p, p, 1, 2 * p)>>] }

\* lines 257-264: restoreModelFromRemote up to its first await
RestoreEntered(p, m, targetData) ==
  LET r == [RunIdle EXCEPT !.op = "restoreModelFromRemote", !.n = run[p].n + 1,
                           !.modelType = m, !.remote = targetData, !.pre = Snapshot(m)]
  IN  IF ~targetData.present THEN [r EXCEPT !.pc = "done", !.returned = "null"]
      ELSE IF Len(targetData.data) > 0
      THEN [r EXCEPT !.pc = "restoreData", !.progress = <<"restore">>]
      ELSE IF targetData.model # NoModel
      THEN [r EXCEPT !.pc = "restoreModel", !.progress = <<"restore">>]
      ELSE [r EXCEPT !.pc = "done", !.returned = "null", !.progress = <<"restore">>]

RestoreCall(p) ==
  /\ CanCall(p)
  /\ \E m \in ModelType :
       \E targetData \in Remotes(p, m) :
         run' = [run EXCEPT ![p] = RestoreEntered(p, m, targetData)]
  /\ UNCHANGED <<storedData, storedModel, gb, pr, call, ui>>

\* lines 264-269: saveData resolves; the model is saved or, without one,
\* trainFromData is called on the rows
RestoreDataDone(p) ==
  /\ run[p].pc = "restoreData"
  /\ saveData(run[p].modelType, run[p].remote.data)
  /\ run' = [run EXCEPT ![p] =
               IF run[p].remote.model # NoModel
               THEN [run[p] EXCEPT !.pc = "restoreModel", !.writes = @ + 1]
               ELSE EnterTrainFromData([run[p] EXCEPT !.writes = @ + 1], run[p].remote.data)]
  /\ UNCHANGED <<storedModel, gb, pr, call>>
  /\ OnProgress(p)

\* lines 266-267: saveModel resolves, the metrics of the model are returned
RestoreModelDone(p) ==
  /\ run[p].pc = "restoreModel"
  /\ saveModel(run[p].modelType, run[p].remote.model)
  /\ run' = [run EXCEPT ![p].pc = "done", ![p].writes = @ + 1, ![p].returned = "metrics"]
  /\ UNCHANGED <<storedData, gb, pr, call, ui>>

\* a request to the store rejects: nothing is stored, the operation fails
DbRejectsOp(p) ==
  /\ run[p].pc \in {"getModel", "clearModel", "clearData", "restoreData", "restoreModel"}
  /\ Fail(p, "StorageError")
  /\ UNCHANGED <<storedData, storedModel, gb, pr, call, ui>>

\* lines 35-38: what getStoredMetrics returns when its getModel reads the store now
getStoredMetrics(m) == IF storedModel[m] = NoModel THEN NoMetrics ELSE storedModel[m].metrics

OpsNext ==
  \E p \in Procs :
    \/ HandleTrainCall(p)
    \/ ReadFileDone(p)
    \/ GetDataDone(p)
    \/ SleepDone(p)
    \/ FitDone(p)
    \/ SaveDataDone(p)
    \/ SaveModelDone(p)
    \/ DbRejects(p)
    \/ HandlePredictCall(p)
    \/ GetModelDone(p)
    \/ PredictReadFileDone(p)
    \/ ClearCall(p)
    \/ ClearModelDone(p)
    \/ ClearDataDone(p)
    \/ RestoreCall(p)
    \/ RestoreDataDone(p)
    \/ RestoreModelDone(p)
    \/ DbRejectsOp(p)
    \/ Settle(p)

OpsSpec == Init /\ [][OpsNext]_vars

\* training runs and predictions only
PredictOpsNext ==
  \E p \in Procs :
    \/ HandleTrainCall(p)
    \/ ReadFileDone(p)
    \/ GetDataDone(p)
    \/ SleepDone(p)
    \/ FitDone(p)
    \/ SaveDataDone(p)
    \/ SaveModelDone(p)
    \/ DbRejects(p)
    \/ HandlePredictCall(p)
    \/ GetModelDone(p)
    \/ PredictReadFileDone(p)
    \/ DbRejectsOp(p)
    \/ Settle(p)

PredictOpsSpec == Init /\ [][PredictOpsNext]_vars


\* ------------------------------------------------------------------------
\* Properties of handlePredict, clearModelData and restoreModelFromRemote
\* (checked under PredictOpsSpec and OpsSpec)
\* ------------------------------------------------------------------------

\* initialMean plus learningRate times the value of every tree, for a sheet row
RawOf(model, row) ==
  LET x == [k \in 1..Len(model.featureNames) |-> preprocessRow(row)[model.featureNames[k]]]
  IN  RAdd(model.initialMean,
           SumSeq([k \in 1..Len(model.trees) |->
                     RMul(model.learningRate, predictTree(model.trees[k], x))]))

Predicted(p) == run[p].op = "handlePredict" /\ run[p].pc = "done"

\* C21: for a model type other than RECALL every result row of handlePredict
\* has _IS_CLIPPED false, its predicted value is the rounded raw ensemble
\* prediction and its bounds are that prediction minus (floored at 0) and plus
\* 1.28 * residualStd, rounded, whatever guardrail options were passed.
NonRecallNeverGuarded ==
  \A p \in Procs :
    (Predicted(p) /\ run[p].modelType # "RECALL") =>
       \A i \in 1..Len(run[p].results) :
         LET raw == RawOf(run[p].model, run[p].file.rows[i])
             halfWidth == RDiv(RMul(I(128), run[p].model.residualStd), I(100))
         IN  /\ Len(run[p].results) = Len(run[p].file.rows)
             /\ ~run[p].results[i].isClipped
             /\ run[p].results[i].predicted = MathRound(raw)
             /\ run[p].results[i].lower = MathRound(RMax(Zero, RSub(raw, halfWidth)))
             /\ run[p].results[i].upper = MathRound(RAdd(raw, halfWidth))

\* a prediction for ONLINE with the guardrail switched on whose band would
\* have clipped the raw prediction
NonRecallWitness ==
  \E p \in Procs :
    /\ Predicted(p) /\ run[p].modelType = "ONLINE"
    /\ run[p].guardrail.enabled
    /\ predictGBDT(run[p].model, preprocessRow(run[p].file.rows[1]), run[p].guardrail).isClipped
    /\ ~run[p].results[1].isClipped
    /\ run[p].results[1].predicted = I(4)

\* C22: every result row of handlePredict reports the predicted daily value
\* times the divisor trainFromData applies to the target of such a row: the
\* collection days as divided out in training for RECALL, 1 for the other types.
MultiplierIsTargetDivisor ==
  \A p \in Procs :
    Predicted(p) =>
       \A i \in 1..Len(run[p].results) :
         LET row == run[p].file.rows[i]
             isRecall == run[p].modelType = "RECALL"
             preds == predictGBDT(run[p].model, preprocessRow(row),
                                  ActiveGuardrail(isRecall, run[p].guardrail))
         IN  run[p].results[i].predicted =
               MathRound(RMul(preds.mean, TargetDivisor(preprocessRow(row), isRecall)))

\* C27: a step of a handlePredict run leaves the stored datasets and the
\* stored models as they were, keeps the rows of its file and the model it
\* loaded as they were, and every result row carries its input row unchanged.
PredictWritesNothing ==
  [][\A p \in Procs :
       (run'[p] # run[p] /\ run'[p].op = "handlePredict") =>
          /\ storedData' = storedData
          /\ storedModel' = storedModel
          /\ run[p].op = "handlePredict" =>
               /\ run'[p].file = run[p].file
               /\ run[p].pc = "readFile" => run'[p].model = run[p].model
          /\ run'[p].pc = "done" =>
               /\ Len(run'[p].results) = Len(run[p].file.rows)
               /\ \A i \in 1..Len(run'[p].results) :
                    run'[p].results[i].row = run[p].file.rows[i]]_vars

\* a prediction of two rows has returned and the stored dataset and model of
\* its type are the ones it was called on
PredictLeftStoreWitness ==
  \E p \in Procs :
    /\ Predicted(p) /\ Len(run[p].results) = 2
    /\ storedModel[run[p].modelType] # NoModel
    /\ Snapshot(run[p].modelType) = run[p].pre
    /\ run[p].model = storedModel[run[p].modelType]

\* no call of any caller is between its first step and its return
Quiescent == \A p \in Procs : run[p].pc \in {"idle", "done", "failed"}

\* C23: when no operation is running, a stored model's metrics.sampleSize is
\* the number of rows of the stored dataset of its type.
SampleSizeIsStoredRows ==
  Quiescent =>
    \A m \in ModelType :
      storedModel[m] # NoModel => storedModel[m].metrics.sampleSize = Len(storedData[m])

\* C26: at the step in which clearModelData returns for a model type, the
\* stored model of that type is null, its dataset is empty and getStoredMetrics
\* gives null, while the other types are stored as before the step; and a
\* handlePredict whose getModel finds no model fails as not trained.
ClearLeavesNothing ==
  [][\A p \in Procs :
       /\ (run[p].op = "clearModelData" /\ run[p].pc # "done" /\ run'[p].pc = "done") =>
             /\ storedModel'[run[p].modelType] = NoModel
             /\ storedData'[run[p].modelType] = <<>>
             /\ getStoredMetrics(run[p].modelType)' = NoMetrics
             /\ \A m \in ModelType \ {run[p].modelType} :
                   storedModel'[m] = storedModel[m] /\ storedData'[m] = storedData[m]
       /\ (run[p].op = "handlePredict" /\ run[p].pc = "getModel" /\ run'[p] # run[p]
             /\ storedModel[run[p].modelType] = NoModel) =>
             run'[p].pc = "failed" /\ run'[p].error \in {"NotTrained", "StorageError"}]_vars

\* ------------------------------------------------------------------------
\* The App component (App.tsx): the tabs, loadMetrics and the event handlers
\* that call handleTrain, handlePredict, clearModelData and
\* restoreModelFromRemote
\* ------------------------------------------------------------------------

\* loadMetrics calls that can await getStoredMetrics at the same time
MaxLoads == 2

\* the files the user can pick for training: a good sheet, a file XLSX.read
\* cannot parse, and a file the FileReader fails to read
UiFiles(p) ==
  { [rows |-> <<RawRow(p, p, 1, 2 * p)>>, corrupt |-> FALSE, unreadable |-> FALSE],
    [rows |-> <<>>, corrupt |-> TRUE, unreadable |-> FALSE],
    [rows |-> <<>>, corrupt |-> FALSE, unreadable |-> TRUE] }

\* the files the user can pick for prediction
UiPredictFiles(p) ==
  { [rows |-> <<PredictSheetRow(p, p, 1)>>, corrupt |-> FALSE, unreadable |-> FALSE],
    [rows |-> <<>>, corrupt |-> FALSE, unreadable |-> TRUE] }

\* lines 11-15 and 30-36: the component after its first render, loadMetrics
\* of the first tab awaiting getStoredMetrics
UiMounted == [UiIdle EXCEPT !.mounted = TRUE, !.loads = <<"ONLINE">>]

UiInit ==
  /\ StoreIdle
  /\ ui = UiMounted
  /\ gb = GbIdle
  /\ pr = PrIdle
  /\ call = CallIdle

\* lines 206-210 and 30-36: a tab is clicked, the effect runs loadMetrics up
\* to await getStoredMetrics(currentModel)
SetCurrentModel ==
  /\ Len(ui.loads) < MaxLoads
  /\ \E type \in CallTypes \ {ui.currentModel} :
       ui' = [ui EXCEPT !.currentModel = type, !.isInitializing = TRUE,
                        !.status = "idle", !.loads = Append(@, type)]
  /\ UNCHANGED <<gb, pr, call, storeVars>>

\* lines 36-43: getStoredMetrics resolves for the oldest loadMetrics call
LoadMetricsDone ==
  /\ Len(ui.loads) > 0
  /\ ui' = [ui EXCEPT !.metrics = getStoredMetrics(Head(ui.loads)),
                      !.isInitializing = FALSE, !.loads = Tail(@)]
  /\ UNCHANGED <<gb, pr, call, storeVars>>

\* the handler of caller p has returned
Returned(p) == run' = [run EXCEPT ![p] = [RunIdle EXCEPT !.n = run[p].n]]

\* lines 53-57: onTrainFileChange up to await handleTrain
OnTrainFileChange(p) ==
  /\ CanCall(p)
  /\ \E file \in UiFiles(p) :
       run' = [run EXCEPT ![p] = HandleTrainEntered(p, ui.currentModel, file)]
  /\ ui' = [ui EXCEPT !.status = "loading"]
  /\ UNCHANGED <<storedData, storedModel, gb, pr, call>>

\* lines 57-66: handleTrain has settled
TrainSettled(p) ==
  /\ run[p].op = "handleTrain" /\ run[p].pc \in {"done", "failed"}
  /\ ui' = IF run[p].pc = "done"
           THEN [ui EXCEPT !.metrics = run[p].payload.metrics, !.status = "success"]
           ELSE [ui EXCEPT !.status = "error"]
  /\ Returned(p)
  /\ UNCHANGED <<storedData, storedModel, gb, pr, call>>

\* lines 69-73: handleClearData, confirmed, up to await clearModelData
HandleClearData(p) ==
  /\ CanCall(p)
  /\ run' = [run EXCEPT ![p] = ClearEntered(p, ui.currentModel)]
  /\ ui' = [ui EXCEPT !.status = "loading"]
  /\ UNCHANGED <<storedData, storedModel, gb, pr, call>>

\* lines 73-78: clearModelData has settled
ClearSettled(p) ==
  /\ run[p].op = "clearModelData" /\ run[p].pc \in {"done", "failed"}
  /\ ui' = IF run[p].pc = "done"
           THEN [ui EXCEPT !.metrics = NoMetrics, !.status = "success"]
           ELSE [ui EXCEPT !.status = "error"]
  /\ Returned(p)
  /\ UNCHANGED <<storedData, storedModel, gb, pr, call>>

\* lines 98-112: onPredictFileChange up to await handlePredict, with the
\* guardrail settings of lines 22-24
OnPredictFileChange(p) ==
  /\ CanCall(p)
  /\ \E file \in UiPredictFiles(p) :
       run' = [run EXCEPT ![p] =
                 HandlePredictEntered(p, ui.currentModel, file,
                                      [enabled |-> TRUE, lowPercent |-> I(30),
                                       highPercent |-> I(170)])]
  /\ ui' = [ui EXCEPT !.status = "loading"]
  /\ UNCHANGED <<storedData, storedModel, gb, pr, call>>

\* lines 112-120: handlePredict has settled
PredictSettled(p) ==
  /\ run[p].op = "handlePredict" /\ run[p].pc \in {"done", "failed"}
  /\ ui' = [ui EXCEPT !.status = IF run[p].pc = "done" THEN "success" ELSE "error"]
  /\ Returned(p)
  /\ UNCHANGED <<storedData, storedModel, gb, pr, call>>

\* lines 149-152: handleCloudPretrain up to await fetchFromGitHub
HandleCloudPretrain(p) ==
  /\ CanCall(p)
  /\ run' = [run EXCEPT ![p] = [RunIdle EXCEPT !.op = "restoreModelFromRemote",
                                               !.pc = "fetch", !.n = run[p].n + 1,
                                               !.modelType = ui.currentModel]]
  /\ ui' = [ui EXCEPT !.status = "loading"]
  /\ UNCHANGED <<storedData, storedModel, gb, pr, call>>

\* lines 152-154: fetchFromGitHub resolves with no file, or with a file and
\* restoreModelFromRemote runs to its first await
FetchDone(p) ==
  /\ run[p].pc = "fetch"
  /\ \/ Fail(p, "NoRemoteFile")
     \/ \E targetData \in Remotes(p, run[p].modelType) :
          run' = [run EXCEPT ![p] =
                    [RestoreEntered(p, run[p].modelType, targetData) EXCEPT !.n = run[p].n]]
  /\ UNCHANGED <<storedData, storedModel, gb, pr, call>>
  /\ OnProgress(p)

\* what restoreModelFromRemote returned (lines 267, 269, 271)
RestoredMetrics(r) ==
  IF r.returned = "metrics" THEN r.remote.model.metrics
  ELSE IF r.returned = "null" THEN NoMetrics
  ELSE r.payload.metrics

\* lines 154-163: restoreModelFromRemote has settled
RestoreSettled(p) ==
  /\ run[p].op = "restoreModelFromRemote" /\ run[p].pc \in {"done", "failed"}
  /\ ui' = IF run[p].pc = "done" /\ RestoredMetrics(run[p]) # NoMetrics
           THEN [ui EXCEPT !.metrics = RestoredMetrics(run[p]), !.status = "success"]
           ELSE [ui EXCEPT !.status = "error"]
  /\ Returned(p)
  /\ UNCHANGED <<storedData, storedModel, gb, pr, call>>

\* the steps by which the operation of caller p goes on once its handler has
\* started it
UiContinue(p) ==
  \/ ReadFileDone(p)
  \/ GetDataDone(p)
  \/ SleepDone(p)
  \/ FitDone(p)
  \/ SaveDataDone(p)
  \/ SaveModelDone(p)
  \/ TrainSettled(p)
  \/ GetModelDone(p)
  \/ PredictReadFileDone(p)
  \/ PredictSettled(p)
  \/ ClearModelDone(p)
  \/ ClearDataDone(p)
  \/ ClearSettled(p)
  \/ FetchDone(p)
  \/ RestoreDataDone(p)
  \/ RestoreModelDone(p)
  \/ RestoreSettled(p)

UiNext ==
  \/ SetCurrentModel
  \/ LoadMetricsDone
  \/ \E p \in Procs :
       \/ OnTrainFileChange(p)
       \/ OnPredictFileChange(p)
       \/ HandleClearData(p)
       \/ HandleCloudPretrain(p)
       \/ UiContinue(p)

UiSpec == UiInit /\ [][UiNext]_vars

\* ------------------------------------------------------------------------
\* Properties of the App component (checked under UiSpec)
\* ------------------------------------------------------------------------

\* no handler and no loadMetrics call is awaiting anything
NothingInFlight == ui.loads = <<>> /\ \A p \in Procs : run[p].pc = "idle"

\* C24: whenever no operation is in flight, the metrics on display are null
\* or the stored metrics of the model type of the selected tab.
DisplayedIsStored ==
  NothingInFlight => ui.metrics \in {NoMetrics, getStoredMetrics(ui.currentModel)}

\* C25: an operation that has set status loading and has not yet set success
\* or error can take its next step (it is not left awaiting a promise that
\* never settles).
LoadingCanEnd ==
  \A p \in Procs : run[p].pc # "idle" => ENABLED UiContinue(p)

====
